---- MODULE Spec2Model ----
(***************************************************************************)
(* Version archive of the lance dataset (rust/lance/src/dataset/archive.rs)*)
(* as a state machine: the archive directory of the object store, one      *)
(* in-memory VersionArchive, and the operations load_or_new, load_latest,  *)
(* add_summaries and flush (finalize_summaries, put, cleanup_old_archives).*)
(* Object-store failures and the overwriting of a file with garbage are    *)
(* inputs of the actions.                                                  *)
(***************************************************************************)
EXTENDS Integers, Sequences, FiniteSets, TLC

(* ------------------------------ bounds --------------------------------- *)
\* width of the u64 words of the model, in bits
U64Bits == 4
\* largest version number a summary carries
MaxVersion == 3
\* most summaries held in memory between two flushes
MaxHeld == 3
\* largest max_entries of a configuration
MaxEntries == 2
\* most store failures and overwrites injected in one behaviour
MaxFailures == 2

(* --------------------------- program constants ------------------------- *)
\* width of the zero-padded file stem: format!("{:020}{}", ...)
NAME_WIDTH == 20

\* VersionArchiveConfig::default().max_archive_files
DEFAULT_MAX_ARCHIVE_FILES == 2

VERSION_ARCHIVE_FILE_SUFFIX == ".binpb"

\* u64::MAX
INVERTED_VERSION_OFFSET == 2^U64Bits - 1

\* the version used as it is
plain_version(version) == version

to_inverted_version(version) == INVERTED_VERSION_OFFSET - version

\* the inverted value taken for the version
inverted_taken_as_version(inverted) == inverted

from_inverted_version(inverted) == INVERTED_VERSION_OFFSET - inverted

\* `x as i64` of a u64 and `y as u64` of an i64: two's complement reinterpretation
AsI64(x) == IF x >= 2^(U64Bits - 1) THEN x - 2^U64Bits ELSE x

AsU64(y) == y % 2^U64Bits

(* ------------------------------ file names ----------------------------- *)
\* the decimal digits of n, zero-padded to w places ({:020})
RECURSIVE PadDigits(_, _)
PadDigits(n, w) == IF w = 0 THEN <<>> ELSE Append(PadDigits(n \div 10, w - 1), n % 10)

\* the value of the first k digits of d
RECURSIVE ParsePrefix(_, _)
ParsePrefix(d, k) == IF k = 0 THEN 0 ELSE 10 * ParsePrefix(d, k - 1) + d[k]

\* str::parse::<u64> of a digit string
ParseDigits(d) == ParsePrefix(d, Len(d))

\* format!("{:020}", inverted) of every u64
PaddedStem == [inverted \in 0..INVERTED_VERSION_OFFSET |-> PadDigits(inverted, NAME_WIDTH)]

\* format!("{:020}{}", to_inverted_version(version), VERSION_ARCHIVE_FILE_SUFFIX)
ArchiveFileName(version) ==
    [stem |-> PaddedStem[to_inverted_version(version)],
     suffix |-> VERSION_ARCHIVE_FILE_SUFFIX]

\* filename.strip_suffix(SUFFIX).and_then(parse::<u64>) followed by from_inverted_version
VersionOfName(name) == from_inverted_version(ParseDigits(name.stem))

(* ------------------------------ data model ----------------------------- *)
Versions == 1..MaxVersion

\* wall-clock readings of chrono::Utc::now().timestamp_millis()
Times == {1}

\* create_test_version_summary(version), in units of 1000 ms, reduced to the
\* fields the archive logic reads
create_test_version_summary(version) ==
    [version |-> version, timestamp_millis |-> version]

VersionSummary == {create_test_version_summary(v) : v \in Versions}

VersionArchiveConfig ==
    [max_entries : 0..MaxEntries, max_archive_files : 0..DEFAULT_MAX_ARCHIVE_FILES]

\* bytes that are no protobuf VersionArchive (b"corrupted")
CorruptBytes ==
    [valid |-> FALSE, versions |-> <<>>, latest_version_number |-> 0,
     dataset_created_millis |-> 0, created_at_millis |-> 0]

\* From<&VersionArchive> for pb_archive::VersionArchive, then prost encode
EncodeArchive(a) ==
    [valid |-> TRUE, versions |-> a.versions,
     latest_version_number |-> a.latest_version_number,
     dataset_created_millis |-> AsI64(a.dataset_created_millis),
     created_at_millis |-> AsI64(a.created_at_millis)]

\* the Ok branch of load_from_path: proto fields back into a VersionArchive
DecodeArchive(bytes) ==
    [versions |-> bytes.versions,
     latest_version_number |-> bytes.latest_version_number,
     dataset_created_millis |-> AsU64(bytes.dataset_created_millis),
     created_at_millis |-> AsU64(bytes.created_at_millis)]

\* the archive load_or_new builds when no file loads
NewArchive(now) ==
    [versions |-> <<>>, latest_version_number |-> 0,
     dataset_created_millis |-> 0, created_at_millis |-> now]

(* ------------------------------- helpers ------------------------------- *)
RECURSIVE SeqsUpTo(_, _)
SeqsUpTo(S, n) ==
    IF n = 0 THEN {<<>>}
    ELSE LET shorter == SeqsUpTo(S, n - 1)
         IN shorter \cup {Append(s, x) : s \in {t \in shorter : Len(t) = n - 1}, x \in S}

AtMostOne(S) == {{}} \cup {{x} : x \in S}

Range(s) == {s[i] : i \in 1..Len(s)}

MaxOf(S) == CHOOSE x \in S : \A y \in S : y <= x

VersionsIn(s) == {s[i].version : i \in 1..Len(s)}

(* ---------------------------- pure algorithms -------------------------- *)
\* x placed behind the last summary whose version is not larger (stable)
RECURSIVE InsertByVersion(_, _)
InsertByVersion(sorted, x) ==
    IF sorted = <<>> THEN <<x>>
    ELSE IF sorted[Len(sorted)].version <= x.version THEN Append(sorted, x)
    ELSE Append(InsertByVersion(SubSeq(sorted, 1, Len(sorted) - 1), x), sorted[Len(sorted)])

RECURSIVE StableSortByVersion(_)
StableSortByVersion(s) ==
    IF s = <<>> THEN <<>>
    ELSE InsertByVersion(StableSortByVersion(SubSeq(s, 1, Len(s) - 1)), s[Len(s)])

\* the summaries left in the order they were added
sort_by_key_skipped(versions) == versions

\* self.versions.sort_by_key(|v| v.version)
sort_by_key(versions) == StableSortByVersion(versions)

\* the surplus drained from the back instead of the front
drain_front_from_back(versions, max_entries) ==
    IF Len(versions) > max_entries THEN SubSeq(versions, 1, max_entries) ELSE versions

\* if len > max_entries { versions.drain(0..len - max_entries) }
drain_front(versions, max_entries) ==
    IF Len(versions) > max_entries
    THEN SubSeq(versions, Len(versions) - max_entries + 1, Len(versions))
    ELSE versions

\* the version of the first summary taken for the largest
max_version_first(versions) == IF versions = <<>> THEN 0 ELSE versions[1].version

\* self.versions.iter().map(|v| v.version).max().unwrap_or(0)
max_version(versions) == IF versions = <<>> THEN 0 ELSE MaxOf(VersionsIn(versions))

\* finalize_summaries(&mut self), with `now` the wall-clock reading it takes
\* dataset_created_millis taken from the first version on every call
finalize_summaries_restamping(a, cfg, now) ==
    IF a.versions = <<>> THEN a
    ELSE LET sorted == sort_by_key(a.versions)
             kept == drain_front(sorted, cfg.max_entries)
         IN [versions |-> kept,
             latest_version_number |-> max_version(kept),
             dataset_created_millis |-> AsU64(sorted[1].timestamp_millis),
             created_at_millis |-> now]

finalize_summaries(a, cfg, now) ==
    IF a.versions = <<>> THEN a
    ELSE LET sorted == sort_by_key(a.versions)
             created == IF a.dataset_created_millis = 0
                        THEN AsU64(sorted[1].timestamp_millis)
                        ELSE a.dataset_created_millis
             kept == drain_front(sorted, cfg.max_entries)
         IN [versions |-> kept,
             latest_version_number |-> max_version(kept),
             dataset_created_millis |-> created,
             created_at_millis |-> now]

\* archives.sort_by(|a, b| b.0.cmp(&a.0)): <<version, path>> pairs, largest version first
RECURSIVE SortDescending(_)
SortDescending(S) ==
    IF S = {} THEN <<>>
    ELSE LET m == CHOOSE e \in S : \A f \in S : f[1] <= e[1]
         IN <<m>> \o SortDescending(S \ {m})

\* list_archive_files(object_store, archive_dir) when the listing succeeds
list_archive_files(dir) ==
    SortDescending({<<VersionOfName(n), n>> : n \in
                        {m \in DOMAIN dir : m.suffix = VERSION_ARCHIVE_FILE_SUFFIX}})

\* one file too many deleted
cleanup_targets_one_extra(archives, max_archive_files) ==
    IF Len(archives) > max_archive_files
    THEN {ArchiveFileName(archives[i][1]) :
              i \in 1..(IF max_archive_files = 0 THEN Len(archives)
                        ELSE Len(archives) - max_archive_files + 1)}
    ELSE {}

\* one file too few deleted
cleanup_targets_one_short(archives, max_archive_files) ==
    IF Len(archives) > max_archive_files + 1
    THEN {ArchiveFileName(archives[i][1]) : i \in 1..(Len(archives) - max_archive_files - 1)}
    ELSE {}

\* the paths cleanup_old_archives calls delete on:
\* archives.iter().take(archives.len() - max_archive_files), each rebuilt from its version
cleanup_targets(archives, max_archive_files) ==
    IF Len(archives) > max_archive_files
    THEN {ArchiveFileName(archives[i][1]) : i \in 1..(Len(archives) - max_archive_files)}
    ELSE {}

\* load_from_path: open/get_all fail for the paths in readFail, decode fails on garbage
load_from_path(dir, path, readFail) ==
    IF path \in readFail THEN [ok |-> FALSE, err |-> "read", archive |-> NewArchive(0)]
    ELSE IF ~dir[path].valid THEN [ok |-> FALSE, err |-> "decode", archive |-> NewArchive(0)]
    ELSE [ok |-> TRUE, err |-> "", archive |-> DecodeArchive(dir[path])]

\* the last file that loads taken instead of the first
last_loadable(archives, dir, readFail) ==
    LET good == {i \in 1..Len(archives) : load_from_path(dir, archives[i][2], readFail).ok}
    IN IF good = {} THEN 0 ELSE CHOOSE i \in good : \A j \in good : i >= j

\* the loop of load_or_new / load_latest: index of the first file that loads, 0 if none
first_loadable(archives, dir, readFail) ==
    LET good == {i \in 1..Len(archives) : load_from_path(dir, archives[i][2], readFail).ok}
    IN IF good = {} THEN 0 ELSE CHOOSE i \in good : \A j \in good : i <= j

\* the failures the loop logs and skips before it returns
skipped_failures(archives, dir, readFail) ==
    LET k == first_loadable(archives, dir, readFail)
        visited == IF k = 0 THEN 1..Len(archives) ELSE 1..(k - 1)
    IN {load_from_path(dir, archives[i][2], readFail).err : i \in visited}

(* -------------------------------- state -------------------------------- *)
VARIABLES
    store,        \* <base>/_archive/versions/: file name -> bytes
    archive,      \* the VersionArchive the caller holds
    config,       \* its VersionArchiveConfig
    lastOp,       \* the last operation: inputs, outcome, what it touched
    flushedEver,  \* versions handed to a flush that returned Ok and wrote
    session,      \* where the history stands in load_or_new -> add_summaries -> flush
    firstInstance,\* TRUE while archive is still the instance made on the empty directory
    failures,     \* store failures and overwrites injected so far
    manifests,    \* the Manifests built so far, oldest first (the last is the one at hand)
    call,         \* the last Manifest operation: its name, inputs and result
    provider,     \* a LanceSchemaProvider: its table map, the map's shard lock, the
                  \* namespace behind it and the calls of table() in progress
    flushers      \* VersionArchive instances flushing at the same time: their position
                  \* in flush and their locals

\* the state of the concurrent parts, which the sequential operations leave alone
concurrentVars == <<provider, flushers>>

archiveVars == <<store, archive, config, lastOp, flushedEver, session, firstInstance, failures,
                 concurrentVars>>

manifestVars == <<manifests, call, concurrentVars>>

vars == <<store, archive, config, lastOp, flushedEver, session, firstInstance, failures,
          manifests, call, provider, flushers>>

\* no schema provider and no concurrent flush
NoProvider == [tables |-> <<>>]

NoFlushers == <<>>

\* no Manifest operation has been called
NoCall == [op |-> "none"]

\* an operation that meets an injected failure uses up one of the MaxFailures
Inject(failed) ==
    /\ failed => failures < MaxFailures
    /\ failures' = IF failed THEN failures + 1 ELSE failures

NoName == [stem |-> <<>>, suffix |-> ""]

Op(op, result, faults) ==
    [op |-> op, result |-> result, faults |-> faults, put |-> NoName,
     targets |-> {}, delFailed |-> {}, reordered |-> FALSE, dropped |-> 0,
     repeated |-> FALSE]

EmptyDir == [n \in {} |-> CorruptBytes]

Init ==
    /\ store = EmptyDir
    /\ config \in VersionArchiveConfig
    /\ archive = NewArchive(1)
    /\ lastOp = Op("load_or_new", "Ok", {})
    /\ flushedEver = {}
    /\ session = "loaded"
    /\ firstInstance = TRUE
    /\ failures = 0
    /\ manifests = <<>>
    /\ call = NoCall
    /\ provider = NoProvider
    /\ flushers = NoFlushers

(* ------------------------------- actions ------------------------------- *)
\* VersionArchive::load_or_new; the listing fails if listFail, open/read of the
\* files in readFail fails
LoadOrNewOp(listFail, readFail, now) ==
    LET archives == list_archive_files(store)
        k == first_loadable(archives, store, readFail)
        faults == skipped_failures(archives, store, readFail)
    IN /\ IF listFail
          THEN /\ archive' = archive
               /\ lastOp' = Op("load_or_new", "Err", {"list"})
               /\ firstInstance' = firstInstance
          ELSE /\ archive' = IF k = 0 THEN NewArchive(now)
                             ELSE load_from_path(store, archives[k][2], readFail).archive
               /\ lastOp' = Op("load_or_new", "Ok", faults)
               /\ firstInstance' = FALSE
       /\ session' = IF session = "flushed" /\ ~listFail /\ faults = {}
                     THEN "loaded" ELSE "broken"
       /\ flushedEver' = IF session' = "broken" THEN {} ELSE flushedEver
       /\ Inject(listFail \/ "read" \in faults)
       /\ UNCHANGED <<store, config>>

\* VersionArchive::load_latest; on Ok(None) the caller keeps what it held
LoadLatestOp(listFail, readFail) ==
    LET archives == list_archive_files(store)
        k == first_loadable(archives, store, readFail)
        faults == skipped_failures(archives, store, readFail)
    IN /\ IF listFail
          THEN /\ archive' = archive
               /\ lastOp' = Op("load_latest", "Err", {"list"})
               /\ firstInstance' = firstInstance
          ELSE /\ archive' = IF k = 0 THEN archive
                             ELSE load_from_path(store, archives[k][2], readFail).archive
               /\ lastOp' = Op("load_latest", IF k = 0 THEN "None" ELSE "Ok", faults)
               /\ firstInstance' = (firstInstance /\ k = 0)
       /\ session' = "broken"
       /\ flushedEver' = {}
       /\ Inject(listFail \/ "read" \in faults)
       /\ UNCHANGED <<store, config>>

\* a batch of new summaries: pairwise distinct versions above all seen so far
FreshBatch(batch) ==
    /\ batch # <<>>
    /\ \A i, j \in 1..Len(batch) : i # j => batch[i].version # batch[j].version
    /\ \A i \in 1..Len(batch) :
           \A v \in flushedEver \cup VersionsIn(archive.versions) : batch[i].version > v

\* VersionArchive::add_summaries
AddSummariesOp(batch) ==
    /\ archive' = IF batch = <<>> THEN archive
                  ELSE [archive EXCEPT !.versions = archive.versions \o batch]
    /\ lastOp' = Op("add_summaries", "Ok", {})
    /\ session' = IF session = "loaded" /\ FreshBatch(batch) THEN "added" ELSE "broken"
    /\ flushedEver' = IF session' = "broken" THEN {} ELSE flushedEver
    /\ UNCHANGED <<store, config, firstInstance, failures>>

\* what flush computes before any store call can fail: the finalized archive, the
\* path it puts, the directory after the put, the paths cleanup then calls delete on
FlushPlan(now) ==
    LET fin == finalize_summaries(archive, config, now)
        path == ArchiveFileName(fin.latest_version_number)
        bytes == EncodeArchive(fin)
        written == [n \in DOMAIN store \cup {path} |-> IF n = path THEN bytes ELSE store[n]]
    IN [fin |-> fin, path |-> path, written |-> written,
        targets |-> cleanup_targets(list_archive_files(written), config.max_archive_files)]

\* flush stops before the put when finalize_summaries left nothing to write
flush_never_returns_early(fin) == FALSE

flush_returns_early(fin) == fin.versions = <<>>

\* VersionArchive::flush: finalize_summaries, put, cleanup_old_archives; the put fails
\* if putFail, the listing of cleanup if listFail, the deletes of the files in delFail
FlushOp(now, putFail, listFail, delFail) ==
    LET plan == FlushPlan(now)
        fin == plan.fin
        failed == plan.targets \cap delFail
        kept == [n \in DOMAIN plan.written \ (plan.targets \ delFail) |-> plan.written[n]]
        done == [Op("flush", "Ok", {}) EXCEPT
                     !.reordered = (sort_by_key(archive.versions) # archive.versions),
                     !.dropped = Len(archive.versions) - Len(fin.versions),
                     !.repeated = (lastOp.op = "flush")]
        ok == flush_returns_early(fin) \/ (~putFail /\ ~listFail /\ failed = {})
    IN /\ archive' = fin
       /\ IF flush_returns_early(fin)
          THEN /\ store' = store
               /\ lastOp' = done
          ELSE IF putFail
          THEN /\ store' = store
               /\ lastOp' = [done EXCEPT !.result = "Err", !.faults = {"put"}]
          ELSE IF listFail
          THEN /\ store' = plan.written
               /\ lastOp' = [done EXCEPT !.result = "Err", !.faults = {"list"},
                                         !.put = plan.path]
          ELSE /\ store' = kept
               /\ lastOp' = [done EXCEPT !.put = plan.path, !.targets = plan.targets,
                                 !.delFailed = failed,
                                 !.faults = IF failed = {} THEN {} ELSE {"delete"}]
       /\ session' = IF session = "added" /\ ok THEN "flushed" ELSE "broken"
       /\ flushedEver' = IF session' = "broken" THEN {}
                         ELSE IF flush_returns_early(fin) THEN flushedEver
                         ELSE flushedEver \cup VersionsIn(archive.versions)
       /\ Inject(~ok)
       /\ UNCHANGED <<config, firstInstance>>

\* an archive file is overwritten with bytes that do not decode (put(&path, b"corrupted"))
CorruptOp(n) ==
    /\ store[n].valid
    /\ store' = [store EXCEPT ![n] = CorruptBytes]
    /\ lastOp' = [Op("corrupt", "Ok", {}) EXCEPT !.put = n]
    /\ session' = "broken"
    /\ flushedEver' = {}
    /\ Inject(TRUE)
    /\ UNCHANGED <<archive, config, firstInstance>>

Batches == SeqsUpTo(VersionSummary, MaxHeld)

(* ---- the archive on a store that never fails and that nobody else writes ---- *)
LoadOrNew ==
    /\ \E now \in Times : LoadOrNewOp(FALSE, {}, now)
    /\ UNCHANGED manifestVars

AddSummaries ==
    \E batch \in Batches :
        /\ Len(archive.versions) + Len(batch) <= MaxHeld
        /\ AddSummariesOp(batch)
        /\ UNCHANGED manifestVars

Flush ==
    /\ \E now \in Times : FlushOp(now, FALSE, FALSE, {})
    /\ UNCHANGED manifestVars

Next == LoadOrNew \/ AddSummaries \/ Flush

Spec == Init /\ [][Next]_vars

(* ---- the archive on a store whose calls may fail and whose files may rot; ---- *)
(* ---- the caller adds the summary of one newer version at a time            ---- *)
LoadOrNewFaulty ==
    /\ \E now \in Times :
           \/ LoadOrNewOp(TRUE, {}, now)
           \/ \E readFail \in AtMostOne(DOMAIN store) : LoadOrNewOp(FALSE, readFail, now)
    /\ UNCHANGED manifestVars

LoadLatestFaulty ==
    /\ \/ LoadLatestOp(TRUE, {})
       \/ \E readFail \in AtMostOne(DOMAIN store) : LoadLatestOp(FALSE, readFail)
    /\ UNCHANGED manifestVars

AddNewer ==
    \E v \in Versions :
        /\ Len(archive.versions) < MaxHeld
        /\ \A u \in VersionsIn(archive.versions) : u < v
        /\ AddSummariesOp(<<create_test_version_summary(v)>>)
        /\ UNCHANGED manifestVars

FlushFaulty ==
    /\ \E now \in Times :
           \/ FlushOp(now, TRUE, FALSE, {})
           \/ FlushOp(now, FALSE, TRUE, {})
           \/ \E delFail \in SUBSET FlushPlan(now).targets :
                  FlushOp(now, FALSE, FALSE, delFail)
    /\ UNCHANGED manifestVars

Corrupt ==
    /\ \E n \in DOMAIN store : CorruptOp(n)
    /\ UNCHANGED manifestVars

NextFaulty == LoadOrNewFaulty \/ LoadLatestFaulty \/ AddNewer \/ FlushFaulty \/ Corrupt

\* the configuration holds MaxEntries summaries and retains one file
InitFaulty == Init /\ config.max_entries = MaxEntries /\ config.max_archive_files = 1

SpecFaulty == InitFaulty /\ [][NextFaulty]_vars

(* ------------------------------ properties ----------------------------- *)
Count(s, v) == Cardinality({i \in 1..Len(s) : s[i].version = v})

Min(a, b) == IF a <= b THEN a ELSE b

Ascending(s) == \A i \in 1..(Len(s) - 1) : s[i].version <= s[i + 1].version

\* the k largest members of a set of versions
Largest(S, k) == {v \in S : Cardinality({u \in S : u > v}) < k}

FlushedOk == lastOp.op = "flush" /\ lastOp.result = "Ok"

\* C1: after a flush that returns Ok with versions non-empty, the file named after
\* latest_version_number exists and decodes to the versions, latest_version_number
\* and dataset_created_millis held in memory.
C1_FlushedFileDecodesToMemory ==
    (FlushedOk /\ archive.versions # <<>> /\ config.max_archive_files >= 1) =>
        LET name == ArchiveFileName(archive.latest_version_number)
        IN /\ name \in DOMAIN store
           /\ store[name].valid
           /\ DecodeArchive(store[name]).versions = archive.versions
           /\ DecodeArchive(store[name]).latest_version_number = archive.latest_version_number
           /\ DecodeArchive(store[name]).dataset_created_millis
                  = archive.dataset_created_millis

\* C2: after sessions of load_or_new, add_summaries of newer versions and flush, with
\* no failure and no overwritten file, load_or_new returns the min(max_entries, n)
\* largest versions ever flushed and latest_version() is the largest of them
\* (stated for max_entries >= 1 and max_archive_files >= 1).
C2_ReloadHoldsFlushedHistory ==
    (/\ lastOp.op = "load_or_new" /\ session = "loaded" /\ flushedEver # {}
     /\ config.max_entries >= 1 /\ config.max_archive_files >= 1) =>
        /\ VersionsIn(archive.versions)
               = Largest(flushedEver, Min(config.max_entries, Cardinality(flushedEver)))
        /\ archive.latest_version_number = MaxOf(flushedEver)

\* C3: the files cleanup deletes are those with the smallest versions: every file it
\* deletes is older than every file it leaves.
C3_CleanupDeletesOldest ==
    (lastOp.op = "flush" /\ lastOp.targets # {}) =>
        \A t \in lastOp.targets : \A r \in DOMAIN store \ lastOp.targets :
            VersionOfName(t) < VersionOfName(r)

\* C4: after a flush that returns Ok and whose deletes all succeed, the directory
\* holds at most max_archive_files archive files (for the instance made on the empty
\* directory, and for any instance whose flush wrote a file).
C4_AtMostMaxArchiveFiles ==
    (FlushedOk /\ lastOp.delFailed = {} /\ (firstInstance \/ archive.versions # <<>>)) =>
        Cardinality(DOMAIN store) <= config.max_archive_files

C4_Witness ==
    /\ FlushedOk /\ lastOp.delFailed = {} /\ lastOp.targets # {}
    /\ Cardinality(DOMAIN store) = config.max_archive_files

\* C5: load_or_new (no open or read failing) returns the archive decoded from the
\* newest file that decodes, skipping the newer files that do not; with no file that
\* decodes it returns an empty archive with latest_version_number 0 and
\* dataset_created_millis 0.
C5_LoadsNewestDecodable ==
    (lastOp.op = "load_or_new" /\ lastOp.result = "Ok" /\ "read" \notin lastOp.faults) =>
        LET good == {n \in DOMAIN store : store[n].valid}
            newest == CHOOSE n \in good : \A m \in good : VersionOfName(m) <= VersionOfName(n)
        IN IF good = {}
           THEN /\ archive.versions = <<>>
                /\ archive.latest_version_number = 0
                /\ archive.dataset_created_millis = 0
           ELSE archive = DecodeArchive(store[newest])

C5_Witness ==
    /\ lastOp.op = "load_or_new" /\ lastOp.result = "Ok"
    /\ lastOp.faults = {"decode"}
    /\ archive.versions # <<>>
    /\ \E n \in DOMAIN store : ~store[n].valid /\ VersionOfName(n) > archive.latest_version_number

\* C6: a flush leaves at most max_entries summaries, and they are the largest
\* versions of those held just before it: none is new, and every summary it drops
\* is no larger than every summary it keeps.
C6_FlushKeepsLargest ==
    [][lastOp'.op = "flush" =>
        /\ Len(archive'.versions) = Min(Len(archive.versions), config.max_entries)
        /\ \A v \in Versions : Count(archive'.versions, v) <= Count(archive.versions, v)
        /\ \A u, v \in Versions :
               (Count(archive'.versions, u) < Count(archive.versions, u)
                    /\ Count(archive'.versions, v) > 0) => u <= v]_vars

C6_Witness ==
    /\ lastOp.op = "flush" /\ lastOp.dropped > 0
    /\ Len(archive.versions) = config.max_entries

\* C7: the summaries of every archive file written by flush, and of the archive in
\* memory after flush, are in ascending order of version.
C7_VersionsAscending ==
    /\ lastOp.op = "flush" => Ascending(archive.versions)
    /\ \A n \in DOMAIN store : store[n].valid => Ascending(store[n].versions)

C7_Witness ==
    /\ lastOp.op = "flush" /\ lastOp.reordered
    /\ lastOp.put \in DOMAIN store
    /\ Len(store[lastOp.put].versions) >= 2

\* C8: after a flush that leaves versions non-empty, latest_version_number is the
\* largest version in versions and the file the flush wrote is named after it.
C8_LatestIsMaxAndNamesFile ==
    (lastOp.op = "flush" /\ archive.versions # <<>>) =>
        /\ archive.latest_version_number = MaxOf(VersionsIn(archive.versions))
        /\ lastOp.put.suffix = VERSION_ARCHIVE_FILE_SUFFIX
        /\ Len(lastOp.put.stem) = NAME_WIDTH
        /\ VersionOfName(lastOp.put) = MaxOf(VersionsIn(archive.versions))

C8_Witness ==
    /\ lastOp.op = "flush" /\ Len(archive.versions) >= 2
    /\ archive.versions[1].version < archive.latest_version_number
    /\ lastOp.put # NoName

\* C9: an operation that returns Ok suppressed nothing but a file that failed to
\* decode during a load or a delete that failed during cleanup.
C9_OnlyDecodeAndDeleteSuppressed ==
    lastOp.result # "Err" => lastOp.faults \subseteq {"decode", "delete"}

\* C10: when a delete fails during cleanup, flush still returns Ok, the file it wrote
\* stays in place and the other files to delete are deleted (max_archive_files >= 1).
C10_DeleteFailureTolerated ==
    (lastOp.op = "flush" /\ lastOp.delFailed # {} /\ config.max_archive_files >= 1) =>
        /\ lastOp.result = "Ok"
        /\ lastOp.put \in DOMAIN store
        /\ \A t \in lastOp.targets \ lastOp.delFailed : t \notin DOMAIN store

\* C11: a flush of an archive that holds no summaries returns Ok without a put and
\* without a delete, so the directory stays as it was; and load_or_new on a directory
\* that holds no file returns an archive without summaries
C11_EmptyFlushLeavesDirectory ==
    [][/\ (lastOp'.op = "flush" /\ archive.versions = <<>>) =>
             /\ lastOp'.result = "Ok"
             /\ lastOp'.put = NoName
             /\ lastOp'.targets = {}
             /\ store' = store
             /\ archive'.versions = <<>>
       /\ (lastOp'.op = "load_or_new" /\ lastOp'.result = "Ok" /\ store = EmptyDir) =>
             /\ archive'.versions = <<>>
             /\ archive'.latest_version_number = 0]_vars

\* an empty archive was flushed over a directory that holds files
C11_Witness ==
    /\ lastOp.op = "flush"
    /\ lastOp.result = "Ok"
    /\ lastOp.put = NoName
    /\ archive.versions = <<>>
    /\ store # EmptyDir

(* ======================================================================= *)
(* Manifest (lance-table/src/format/manifest.rs)                           *)
(* ======================================================================= *)
MaxFragments == 2     \* fragments in one Manifest
MaxRows == 2          \* largest number of rows of one fragment
MaxChain == 3         \* versions in one chain of Manifests

\* Option<T>: None is the empty sequence, Some(x) the sequence of x alone
None == <<>>

Some(x) == <<x>>

unwrap_or_default(o) == IF o = None THEN 0 ELSE o[1]

\* Option::or
or(a, b) == IF a # None THEN a ELSE b

\* HashMap<String, String> with keys among K and values among V
StringMaps(K, V) == UNION {[D -> V] : D \in SUBSET K}

EmptyMap == [k \in {} |-> "x"]

\* schema and field metadata
Metadata == StringMaps({"a"}, {"x"})

\* table configuration
Configs == StringMaps({"a", "b"}, {"x", "y"})

\* Schema: the fields in order and the schema metadata
Field(id, storage_class, metadata) ==
    [id |-> id, storage_class |-> storage_class, metadata |-> metadata]

\* a schema of one field of the default storage class and one blob field
TestSchema == [fields |-> <<Field(0, "Default", EmptyMap), Field(1, "Blob", EmptyMap)>>,
               metadata |-> EmptyMap]

FieldIds == 0..2

\* Schema::retain_storage_class: the fields of the storage class, the metadata kept
retain_storage_class(schema, storage_class) ==
    [fields |-> SelectSeq(schema.fields, LAMBDA f : f.storage_class = storage_class),
     metadata |-> schema.metadata]

\* Schema::field_by_id_mut: the position of the field with the id, 0 when there is none
field_by_id_mut(schema, field_id) ==
    IF \E i \in 1..Len(schema.fields) : schema.fields[i].id = field_id
    THEN CHOOSE i \in 1..Len(schema.fields) : schema.fields[i].id = field_id
    ELSE 0

\* DataFile: the ordered list of the field ids it holds
DataFile(fields) == [fields |-> fields]

\* Fragment: its id, its data files, physical_rows and whether it carries row_id_meta
Fragment(id, physical_rows, row_id_meta) ==
    [id |-> id, files |-> <<>>, physical_rows |-> physical_rows,
     row_id_meta |-> row_id_meta]

\* Fragment::num_rows
num_rows(f) == f.physical_rows

WriterVersionDefault == [library |-> "lance", version |-> "0.1.0"]

\* LanceFileVersion::Legacy and ::Stable as storage formats
LegacyFormat == [file_format |-> "lance", version |-> "0.1"]

StableFormat == [file_format |-> "lance", version |-> "2.0"]

DataStorageFormats == {LegacyFormat, StableFormat}

\* the scan yielding each fragment's end instead of its start
compute_fragment_ends(fragments) ==
    [i \in 1..(Len(fragments) + 1) |->
        LET upto[j \in 0..i] ==
                IF j = 0 THEN 0
                ELSE upto[j - 1] + (IF j <= Len(fragments)
                                    THEN unwrap_or_default(num_rows(fragments[j]))
                                    ELSE 0)
        IN upto[i]]

\* the running sums of the fragments' rows, the total last
compute_fragment_offsets(fragments) ==
    [i \in 1..(Len(fragments) + 1) |->
        LET before[j \in 0..(i - 1)] ==
                IF j = 0 THEN 0
                ELSE before[j - 1] + unwrap_or_default(num_rows(fragments[j]))
        IN before[i - 1]]

\* Manifest::new
new(schema, fragments, data_storage_format, blob_dataset_version) ==
    [schema |-> schema,
     local_schema |-> retain_storage_class(schema, "Default"),
     version |-> 1,
     writer_version |-> Some(WriterVersionDefault),
     fragments |-> fragments,
     version_aux_data |-> 0,
     index_section |-> None,
     timestamp_nanos |-> 0,
     tag |-> None,
     reader_feature_flags |-> 0,
     writer_feature_flags |-> 0,
     max_fragment_id |-> None,
     transaction_file |-> None,
     fragment_offsets |-> compute_fragment_offsets(fragments),
     next_row_id |-> 0,
     data_storage_format |-> data_storage_format,
     config |-> EmptyMap,
     blob_dataset_version |-> blob_dataset_version]

\* the successor as a copy of the previous version with the new schema and fragments
new_from_previous_keeping_stamps(previous, schema, fragments, new_blob_version) ==
    [previous EXCEPT !.schema = schema,
                     !.local_schema = retain_storage_class(schema, "Default"),
                     !.version = previous.version + 1,
                     !.fragments = fragments,
                     !.fragment_offsets = compute_fragment_offsets(fragments),
                     !.blob_dataset_version =
                         or(new_blob_version, previous.blob_dataset_version)]

\* the successor built without the mark of the previous version
new_from_previous_without_mark(previous, schema, fragments, new_blob_version) ==
    [new(schema, fragments, previous.data_storage_format,
         or(new_blob_version, previous.blob_dataset_version))
        EXCEPT !.version = previous.version + 1,
               !.next_row_id = previous.next_row_id,
               !.config = previous.config]

\* Manifest::new_from_previous
new_from_previous(previous, schema, fragments, new_blob_version) ==
    [schema |-> schema,
     local_schema |-> retain_storage_class(schema, "Default"),
     version |-> previous.version + 1,
     writer_version |-> Some(WriterVersionDefault),
     fragments |-> fragments,
     version_aux_data |-> 0,
     index_section |-> None,
     timestamp_nanos |-> 0,
     tag |-> None,
     reader_feature_flags |-> 0,
     writer_feature_flags |-> 0,
     max_fragment_id |-> previous.max_fragment_id,
     transaction_file |-> None,
     fragment_offsets |-> compute_fragment_offsets(fragments),
     next_row_id |-> previous.next_row_id,
     data_storage_format |-> previous.data_storage_format,
     config |-> previous.config,
     blob_dataset_version |-> or(new_blob_version, previous.blob_dataset_version)]

set_timestamp(m, nanos) == [m EXCEPT !.timestamp_nanos = nanos]

\* HashMap::extend: the upserted keys take the new values
\* keys already present keep their old value
update_config_inserting_only(m, upsert_values) ==
    [m EXCEPT !.config =
        [key \in DOMAIN m.config \cup DOMAIN upsert_values |->
            IF key \in DOMAIN m.config THEN m.config[key] ELSE upsert_values[key]]]

update_config(m, upsert_values) ==
    [m EXCEPT !.config =
        [key \in DOMAIN m.config \cup DOMAIN upsert_values |->
            IF key \in DOMAIN upsert_values THEN upsert_values[key] ELSE m.config[key]]]

\* HashMap::retain of the keys that are not among delete_keys
delete_config_keys(m, delete_keys) ==
    [m EXCEPT !.config = [key \in DOMAIN m.config \ delete_keys |-> m.config[key]]]

replace_schema_metadata(m, new_metadata) == [m EXCEPT !.schema.metadata = new_metadata]

\* an unknown field id answered with Ok and nothing done
replace_field_metadata_or_no_op(m, field_id, new_metadata) ==
    LET i == field_by_id_mut(m.schema, field_id)
    IN IF i # 0
       THEN [ok |-> TRUE, err |-> "",
             manifest |-> [m EXCEPT !.schema.fields[i].metadata = new_metadata]]
       ELSE [ok |-> TRUE, err |-> "", manifest |-> m]

\* the Manifest afterwards, whether the call returned Ok, and the kind of error if not
replace_field_metadata(m, field_id, new_metadata) ==
    LET i == field_by_id_mut(m.schema, field_id)
    IN IF i # 0
       THEN [ok |-> TRUE, err |-> "",
             manifest |-> [m EXCEPT !.schema.fields[i].metadata = new_metadata]]
       ELSE [ok |-> FALSE, err |-> "InvalidInput", manifest |-> m]

FragmentIdsOf(fragments) == {fragments[i].id : i \in 1..Len(fragments)}

\* Iterator::max of the fragment ids, None when there is no fragment
max_id(fragments) ==
    IF fragments = <<>> THEN None ELSE Some(MaxOf(FragmentIdsOf(fragments)))

\* the mark set to the list's largest id, whatever was stored
update_max_fragment_id_overwriting(m) ==
    IF m.fragments = <<>> THEN m
    ELSE [m EXCEPT !.max_fragment_id = max_id(m.fragments)]

update_max_fragment_id(m) ==
    IF m.fragments = <<>> THEN m
    ELSE LET max_fragment_id == max_id(m.fragments)[1]
         IN IF m.max_fragment_id = None
            THEN [m EXCEPT !.max_fragment_id = Some(max_fragment_id)]
            ELSE IF max_fragment_id > m.max_fragment_id[1]
            THEN [m EXCEPT !.max_fragment_id = Some(max_fragment_id)]
            ELSE m

\* the largest id in the list, whatever is stored
max_fragment_id_of_list(m) == max_id(m.fragments)

\* Manifest::max_fragment_id(): the stored mark, else the largest id in the list
max_fragment_id(m) ==
    IF m.max_fragment_id # None THEN m.max_fragment_id ELSE max_id(m.fragments)

\* an error only for a strictly newer version
fragments_since_allowing_equal(self, since) ==
    IF since.version > self.version
    THEN [ok |-> FALSE, err |-> "Io", fragments |-> <<>>]
    ELSE [ok |-> TRUE, err |-> "",
          fragments |-> SelectSeq(self.fragments,
                                  LAMBDA f : max_fragment_id(since) = None
                                             \/ f.id > max_fragment_id(since)[1])]

\* Manifest::fragments_since: whether it returned Ok, the error kind, the fragments
fragments_since(self, since) ==
    IF since.version >= self.version
    THEN [ok |-> FALSE, err |-> "Io", fragments |-> <<>>]
    ELSE LET start == max_fragment_id(since)
         IN [ok |-> TRUE, err |-> "",
             fragments |-> SelectSeq(self.fragments,
                                     LAMBDA f : start = None \/ f.id > start[1])]

(* ------------------- the protobuf form of a Manifest ------------------- *)
NANOS_PER_SECOND == 1000000000

\* feature_flags: the bits of the reader and writer flags
FLAG_MOVE_STABLE_ROW_IDS == 2

FLAG_USE_V2_FORMAT_DEPRECATED == 4

\* flags & bit != 0, bit a power of two
HasFlag(flags, bit) == (flags \div bit) % 2 = 1

has_deprecated_v2_feature_flag(flags) == HasFlag(flags, FLAG_USE_V2_FORMAT_DEPRECATED)

\* Fragment::try_infer_version: None without fragments; the fragments carry legacy files
try_infer_version(fragments) == IF fragments = <<>> THEN None ELSE Some(LegacyFormat)

\* the Timestamp written without the nanos below a second
timestamp_of_whole_seconds(timestamp_nanos) ==
    IF timestamp_nanos = 0 THEN None
    ELSE Some([seconds |-> timestamp_nanos \div NANOS_PER_SECOND, nanos |-> 0])

\* the Timestamp the encoder writes: none for 0, else seconds and the nanos below a
\* second (the timestamps of the model are below 2^63 seconds, so `as i64` keeps them)
timestamp_of(timestamp_nanos) ==
    IF timestamp_nanos = 0 THEN None
    ELSE LET nanos == timestamp_nanos % NANOS_PER_SECOND
             seconds == (timestamp_nanos - nanos) \div NANOS_PER_SECOND
         IN Some([seconds |-> seconds, nanos |-> nanos])

\* the nanos of the Timestamp dropped
nanos_of_seconds_only(timestamp) ==
    IF timestamp = None THEN None ELSE Some(timestamp[1].seconds * NANOS_PER_SECOND)

\* p.timestamp.map(|ts| sec + nanos)
nanos_of(timestamp) ==
    IF timestamp = None THEN None
    ELSE Some(timestamp[1].seconds * NANOS_PER_SECOND + timestamp[1].nanos)

\* From<&Manifest> for pb::Manifest
encode(m) ==
    LET timestamp_nanos == timestamp_of(m.timestamp_nanos)
    IN [fields |-> m.schema.fields,
        version |-> m.version,
        writer_version |-> m.writer_version,
        fragments |-> m.fragments,
        metadata |-> m.schema.metadata,
        version_aux_data |-> m.version_aux_data,
        index_section |-> m.index_section,
        timestamp |-> timestamp_nanos,
        tag |-> IF m.tag = None THEN "" ELSE m.tag[1],
        reader_feature_flags |-> m.reader_feature_flags,
        writer_feature_flags |-> m.writer_feature_flags,
        max_fragment_id |-> m.max_fragment_id,
        transaction_file |-> IF m.transaction_file = None THEN "" ELSE m.transaction_file[1],
        next_row_id |-> m.next_row_id,
        data_format |-> Some(m.data_storage_format),
        config |-> m.config,
        blob_dataset_version |-> unwrap_or_default(m.blob_dataset_version)]

\* the flag check of the decoder left out
row_ids_never_checked(p) == FALSE

\* the reader flag asks for row ids and a fragment has none
row_ids_missing(p) ==
    /\ HasFlag(p.reader_feature_flags, FLAG_MOVE_STABLE_ROW_IDS)
    /\ ~ \A i \in 1..Len(p.fragments) : p.fragments[i].row_id_meta

\* TryFrom<pb::Manifest> for Manifest: whether it returned Ok, and the Manifest
decode(p) ==
    LET timestamp_nanos == nanos_of(p.timestamp)
        inferred == try_infer_version(p.fragments)
        data_storage_format ==
            IF p.data_format = None
            THEN IF inferred # None THEN inferred[1]
                 ELSE IF has_deprecated_v2_feature_flag(p.writer_feature_flags)
                 THEN StableFormat
                 ELSE LegacyFormat
            ELSE p.data_format[1]
        schema == [fields |-> p.fields, metadata |-> p.metadata]
    IN IF row_ids_missing(p)
       THEN [ok |-> FALSE, err |-> "Internal"]
       ELSE [ok |-> TRUE,
             manifest |->
               [schema |-> schema,
                local_schema |-> retain_storage_class(schema, "Default"),
                version |-> p.version,
                writer_version |-> p.writer_version,
                version_aux_data |-> p.version_aux_data,
                index_section |-> p.index_section,
                timestamp_nanos |-> unwrap_or_default(timestamp_nanos),
                tag |-> IF p.tag = "" THEN None ELSE Some(p.tag),
                reader_feature_flags |-> p.reader_feature_flags,
                writer_feature_flags |-> p.writer_feature_flags,
                max_fragment_id |-> p.max_fragment_id,
                fragments |-> p.fragments,
                transaction_file |->
                    IF p.transaction_file = "" THEN None ELSE Some(p.transaction_file),
                fragment_offsets |-> compute_fragment_offsets(p.fragments),
                next_row_id |-> p.next_row_id,
                data_storage_format |-> data_storage_format,
                config |-> p.config,
                blob_dataset_version |->
                    IF p.blob_dataset_version = 0 THEN None
                    ELSE Some(p.blob_dataset_version)]]

(* ---------------- one Manifest under its mutators ---------------- *)
\* the archive is left alone while Manifests are built
ArchiveAtRest ==
    /\ store = EmptyDir
    /\ config = [max_entries |-> MaxEntries, max_archive_files |-> DEFAULT_MAX_ARCHIVE_FILES]
    /\ archive = NewArchive(1)
    /\ lastOp = Op("load_or_new", "Ok", {})
    /\ flushedEver = {}
    /\ session = "loaded"
    /\ firstInstance = TRUE
    /\ failures = 0

\* no archive operation, no schema provider and no concurrent flush in the behaviour
ArchiveIdle ==
    /\ ArchiveAtRest
    /\ provider = NoProvider
    /\ flushers = NoFlushers

Current == manifests[Len(manifests)]

Replace(m) == manifests' = [manifests EXCEPT ![Len(manifests)] = m]

Called(op) == [op |-> op, ok |-> TRUE]

\* fragment lists in id order: none, and two fragments with a gap in the ids
MutateFragments == {<<>>, <<Fragment(0, Some(1), TRUE), Fragment(2, Some(2), TRUE)>>}

InitMutate ==
    /\ ArchiveIdle
    /\ \E fragments \in MutateFragments :
           manifests = <<new(TestSchema, fragments, StableFormat, None)>>
    /\ call = Called("new")

NewFromPrevious ==
    /\ Current.version < MaxChain
    /\ \E fragments \in MutateFragments :
           manifests' = <<new_from_previous(Current, TestSchema, fragments, None)>>
    /\ call' = Called("new_from_previous")
    /\ UNCHANGED archiveVars

\* the Manifest is written to its protobuf form and read back
DecodeEncoded ==
    LET r == decode(encode(Current))
    IN /\ r.ok
       /\ manifests' = <<r.manifest>>
       /\ call' = Called("decode")
       /\ UNCHANGED archiveVars

SetTimestamp ==
    /\ \E nanos \in {0, NANOS_PER_SECOND + 1} : Replace(set_timestamp(Current, nanos))
    /\ call' = Called("set_timestamp")
    /\ UNCHANGED archiveVars

UpdateConfig ==
    /\ \E upsert_values \in Configs : Replace(update_config(Current, upsert_values))
    /\ call' = Called("update_config")
    /\ UNCHANGED archiveVars

DeleteConfigKeys ==
    /\ \E delete_keys \in SUBSET {"a", "b"} :
           Replace(delete_config_keys(Current, delete_keys))
    /\ call' = Called("delete_config_keys")
    /\ UNCHANGED archiveVars

ReplaceSchemaMetadata ==
    /\ \E new_metadata \in Metadata : Replace(replace_schema_metadata(Current, new_metadata))
    /\ call' = Called("replace_schema_metadata")
    /\ UNCHANGED archiveVars

ReplaceFieldMetadata ==
    /\ \E field_id \in FieldIds, new_metadata \in Metadata :
           LET r == replace_field_metadata(Current, field_id, new_metadata)
           IN /\ Replace(r.manifest)
              /\ call' = [op |-> "replace_field_metadata", ok |-> r.ok]
    /\ UNCHANGED archiveVars

UpdateMaxFragmentId ==
    /\ Replace(update_max_fragment_id(Current))
    /\ call' = Called("update_max_fragment_id")
    /\ UNCHANGED archiveVars

NextMutate ==
    \/ NewFromPrevious
    \/ DecodeEncoded
    \/ SetTimestamp
    \/ UpdateConfig
    \/ DeleteConfigKeys
    \/ ReplaceSchemaMetadata
    \/ ReplaceFieldMetadata
    \/ UpdateMaxFragmentId

SpecMutate == InitMutate /\ [][NextMutate]_vars

\* C12: in every Manifest made by new, new_from_previous or decoding and changed by
\* any sequence of the mutators, local_schema is schema.retain_storage_class(Default),
\* in its fields and in its metadata
C12_LocalSchemaIsDefaultPart ==
    \A i \in 1..Len(manifests) :
        manifests[i].local_schema = retain_storage_class(manifests[i].schema, "Default")

(* ------------------- a chain of Manifests: v1, v2, ... ------------------- *)
\* the members of a set of ids in ascending order
AscendingIds(S) ==
    CHOOSE s \in [1..Cardinality(S) -> S] : \A i, j \in DOMAIN s : i < j => s[i] < s[j]

\* the fragment ids of the chains
ChainIds == {0, 1, 2}

\* every fragment list in id order over these ids
ChainFragments ==
    {[i \in 1..Cardinality(S) |-> Fragment(AscendingIds(S)[i], Some(1), TRUE)] :
        S \in SUBSET ChainIds}

\* update_max_fragment_id has been called on the Manifest (a further call changes nothing)
Updated(m) == update_max_fragment_id(m) = m

InitChain ==
    /\ ArchiveIdle
    /\ \E fragments \in ChainFragments :
           manifests = <<new(TestSchema, fragments, StableFormat, None)>>
    /\ call = Called("new")

\* the next version is built from the last one, once that one has its mark updated
ChainNewFromPrevious ==
    /\ Len(manifests) < MaxChain
    /\ Updated(Current)
    /\ \E fragments \in ChainFragments :
           manifests' = Append(manifests,
                               new_from_previous(Current, TestSchema, fragments, None))
    /\ call' = Called("new_from_previous")
    /\ UNCHANGED archiveVars

ChainUpdateMaxFragmentId ==
    /\ Replace(update_max_fragment_id(Current))
    /\ call' = Called("update_max_fragment_id")
    /\ UNCHANGED archiveVars

\* self.fragments_since(since) for two versions of the chain, in either order
ChainFragmentsSince ==
    /\ \E self \in 1..Len(manifests), since \in 1..Len(manifests) :
           LET r == fragments_since(manifests[self], manifests[since])
           IN call' = [op |-> "fragments_since", ok |-> r.ok, self |-> self,
                       since |-> since, err |-> r.err, fragments |-> r.fragments]
    /\ UNCHANGED manifests
    /\ UNCHANGED archiveVars

NextChain == ChainNewFromPrevious \/ ChainUpdateMaxFragmentId \/ ChainFragmentsSince

SpecChain == InitChain /\ [][NextChain]_vars

\* Option<u32> ordered with None below every Some
OptLeq(a, b) == a = None \/ (b # None /\ a[1] <= b[1])

\* C13: update_max_fragment_id() never lowers the stored max_fragment_id; with
\* fragments the stored value afterwards is the larger of the value stored before and
\* the largest fragment id; without fragments the stored value, None included, stays
C13_UpdateKeepsHighWaterMark ==
    [][call'.op = "update_max_fragment_id" =>
         LET before == manifests[Len(manifests)]
             after == manifests'[Len(manifests')]
             largest == MaxOf(FragmentIdsOf(before.fragments))
         IN /\ Len(manifests') = Len(manifests)
            /\ OptLeq(before.max_fragment_id, after.max_fragment_id)
            /\ before.fragments = <<>> => after.max_fragment_id = before.max_fragment_id
            /\ before.fragments # <<>> =>
                 after.max_fragment_id =
                     IF before.max_fragment_id # None /\ before.max_fragment_id[1] > largest
                     THEN before.max_fragment_id
                     ELSE Some(largest)]_vars

\* the call was made on fragments whose ids are all below the stored mark, and kept it
C13_Witness ==
    /\ call.op = "update_max_fragment_id"
    /\ Current.fragments # <<>>
    /\ Current.max_fragment_id # None
    /\ Current.max_fragment_id[1] > MaxOf(FragmentIdsOf(Current.fragments))

\* the fragment ids that appear in the versions 1..k of the chain
IdsUpTo(k) == UNION {FragmentIdsOf(manifests[j].fragments) : j \in 1..k}

\* C14: along a chain v1 = new, v(k+1) = new_from_previous(vk, ..) in which
\* update_max_fragment_id() is called on every Manifest, max_fragment_id() of a version
\* is at least that of its predecessor and at least every fragment id that appeared in
\* this or any earlier version
C14_MaxFragmentIdMonotoneAlongChain ==
    \A k \in 1..Len(manifests) :
        Updated(manifests[k]) =>
            /\ k > 1 => OptLeq(max_fragment_id(manifests[k - 1]), max_fragment_id(manifests[k]))
            /\ \A id \in IdsUpTo(k) : OptLeq(Some(id), max_fragment_id(manifests[k]))

\* a full chain whose last version lists only ids below an id of the first version
C14_Witness ==
    /\ Len(manifests) = MaxChain
    /\ Updated(Current)
    /\ Current.fragments # <<>>
    /\ \E id \in FragmentIdsOf(manifests[1].fragments) :
           \A f \in FragmentIdsOf(Current.fragments) : f < id

\* in the versions 2..n every fragment id that no earlier version listed is above
\* max_fragment_id() of the predecessor
NewIdsAboveMark(n) ==
    \A k \in 2..n :
        \A id \in FragmentIdsOf(manifests[k].fragments) \ IdsUpTo(k - 1) :
            OptLeq(max_fragment_id(manifests[k - 1]), Some(id))
            /\ max_fragment_id(manifests[k - 1]) # Some(id)

\* C15: in a chain with update_max_fragment_id() called on every version and new
\* fragments given ids above the high-water mark, N.fragments_since(P) is, in N's order,
\* the fragments of N with id > P.max_fragment_id(), which are the fragments of N that
\* neither P nor a version before P lists; all of N's fragments when the mark is None
C15_FragmentsSinceAreTheNewOnes ==
    (call.op = "fragments_since" /\ call.ok /\ NewIdsAboveMark(call.self)) =>
        LET N == manifests[call.self]
            P == manifests[call.since]
            mark == max_fragment_id(P)
        IN /\ call.fragments =
                 SelectSeq(N.fragments, LAMBDA f : mark = None \/ f.id > mark[1])
           /\ call.fragments =
                 SelectSeq(N.fragments, LAMBDA f : f.id \notin IdsUpTo(call.since))
           /\ mark = None => call.fragments = N.fragments

\* N lists a new fragment and a fragment that a version before P listed and P dropped
C15_Witness ==
    /\ call.op = "fragments_since"
    /\ call.ok
    /\ NewIdsAboveMark(call.self)
    /\ call.fragments # <<>>
    /\ \E id \in FragmentIdsOf(manifests[call.self].fragments) :
           /\ id \in IdsUpTo(call.since)
           /\ id \notin FragmentIdsOf(manifests[call.since].fragments)

\* C16: fragments_since returns an Io error whenever since.version >= self.version and
\* Ok whenever since.version < self.version, and changes neither Manifest
C16_FragmentsSinceErrorIffNotOlder ==
    [][call'.op = "fragments_since" =>
         /\ manifests' = manifests
         /\ call'.ok <=> manifests[call'.since].version < manifests[call'.self].version
         /\ ~call'.ok => call'.err = "Io"]_vars

\* the call was made with a Manifest as its own predecessor and failed
C16_Witness ==
    /\ call.op = "fragments_since"
    /\ ~call.ok
    /\ call.err = "Io"
    /\ manifests[call.since].version = manifests[call.self].version

(* ------------------ fragments_by_offset_range ------------------ *)
\* slice::binary_search on the 0-based offsets: Ok(i) for any i that holds x (which of
\* several equal entries is returned is left open), else Err(insertion point)
binary_search(offsets, x) ==
    IF \E i \in 1..Len(offsets) : offsets[i] = x
    THEN {[found |-> TRUE, idx |-> i - 1] : i \in {j \in 1..Len(offsets) : offsets[j] = x}}
    ELSE {[found |-> FALSE,
           idx |-> Cardinality({j \in 1..Len(offsets) : offsets[j] < x})]}

\* the walk starts at the insertion point itself
start_at_insertion_point(r) == r.idx

\* one subtracted from the index of a hit too
idx_minus_1_always(r) == r.idx - 1

\* .unwrap_or_else(|idx| idx - 1)
unwrap_or_else_idx_minus_1(r) == IF r.found THEN r.idx ELSE r.idx - 1

\* the loop of fragments_by_offset_range leaves at the 0-based index i
breaks_at(m, i, start, end) ==
    \/ m.fragment_offsets[i + 1] >= end
    \/ m.fragment_offsets[i + 1] + unwrap_or_default(num_rows(m.fragments[i + 1])) <= start

\* Manifest::fragments_by_offset_range once binary_search has returned r: the pairs
\* (offset, fragment) pushed before the first break; an idx below 0 stands for the
\* usize that wrapped, above every length, so that the range idx..len is empty
fragments_by_offset_range(m, start, end, r) ==
    LET idx == unwrap_or_else_idx_minus_1(r)
        pushed == {i \in idx..(Len(m.fragments) - 1) :
                      \A j \in idx..i : ~breaks_at(m, j, start, end)}
    IN IF idx < 0 THEN <<>>
       ELSE [k \in 1..Cardinality(pushed) |->
                [offset |-> m.fragment_offsets[idx + k], fragment |-> m.fragments[idx + k]]]

\* the 0-based indices i at which the loop reads fragment_offsets[i] and fragments[i]
indices_read(m, start, end, idx) ==
    {i \in idx..(Len(m.fragments) - 1) : \A j \in idx..(i - 1) : ~breaks_at(m, j, start, end)}

\* fragment lists with ids 0, 1, ..; physical_rows unset or 0..MaxRows
OffsetFragments ==
    UNION {[1..n -> {Fragment(0, rows, TRUE) : rows \in {None} \cup {Some(c) : c \in 0..MaxRows}}]
              : n \in 0..MaxFragments}

WithIds(fragments) == [i \in DOMAIN fragments |-> [fragments[i] EXCEPT !.id = i - 1]]

\* offsets up to one past the largest total
MaxOffset == MaxFragments * MaxRows + 1

InitOffsets ==
    /\ ArchiveIdle
    /\ \E fragments \in OffsetFragments :
           manifests = <<new(TestSchema, WithIds(fragments), StableFormat, None)>>
    /\ call = Called("new")

FragmentsByOffsetRange ==
    /\ \E start \in 0..MaxOffset, end \in 0..MaxOffset :
           \E r \in binary_search(Current.fragment_offsets, start) :
               call' = [op |-> "fragments_by_offset_range", ok |-> TRUE,
                        start |-> start, end |-> end, search |-> r,
                        idx |-> unwrap_or_else_idx_minus_1(r),
                        pairs |-> fragments_by_offset_range(Current, start, end, r)]
    /\ UNCHANGED manifests
    /\ UNCHANGED archiveVars

NextOffsets == FragmentsByOffsetRange

SpecOffsets == InitOffsets /\ [][NextOffsets]_vars

Rows(f) == unwrap_or_default(num_rows(f))

\* the 1-based positions of the fragments whose rows [offset, offset + rows) meet
\* [start, end)
Intersecting(m, start, end) ==
    {i \in 1..Len(m.fragments) :
        /\ Rows(m.fragments[i]) > 0
        /\ m.fragment_offsets[i] < end
        /\ m.fragment_offsets[i] + Rows(m.fragments[i]) > start}

\* C17: when every fragment has at least one row and start < end,
\* fragments_by_offset_range returns, in ascending order, exactly the pairs
\* (offset_i, fragment_i) of the fragments whose rows [offset_i, offset_i + rows_i)
\* meet [start, end); nothing when start is at or past the total number of rows
C17_OffsetRangeReturnsIntersecting ==
    (/\ call.op = "fragments_by_offset_range"
     /\ call.start < call.end
     /\ \A i \in 1..Len(Current.fragments) : Rows(Current.fragments[i]) >= 1) =>
        LET hit == Intersecting(Current, call.start, call.end)
            total == Current.fragment_offsets[Len(Current.fragments) + 1]
        IN /\ Len(call.pairs) = Cardinality(hit)
           /\ \A k \in 1..Len(call.pairs) :
                \E i \in hit :
                    /\ call.pairs[k] = [offset |-> Current.fragment_offsets[i],
                                        fragment |-> Current.fragments[i]]
                    /\ Cardinality({j \in hit : j < i}) = k - 1
           /\ call.start >= total => call.pairs = <<>>

\* a range that starts inside the first fragment and ends inside the second
C17_Witness ==
    /\ call.op = "fragments_by_offset_range"
    /\ Len(Current.fragments) >= 2
    /\ \A i \in 1..Len(Current.fragments) : Rows(Current.fragments[i]) >= 1
    /\ ~call.search.found
    /\ call.start < Current.fragment_offsets[2]
    /\ call.end > Current.fragment_offsets[2]
    /\ Len(call.pairs) = 2

\* C18: fragments without rows are skipped: the result holds no fragment without rows
\* and holds every fragment with rows whose rows meet [start, end), whichever of equal
\* offsets the binary search returns
C18_ZeroRowFragmentsSkipped ==
    (call.op = "fragments_by_offset_range" /\ call.start < call.end) =>
        /\ \A k \in 1..Len(call.pairs) : Rows(call.pairs[k].fragment) > 0
        /\ \A i \in Intersecting(Current, call.start, call.end) :
               \E k \in 1..Len(call.pairs) : call.pairs[k].fragment = Current.fragments[i]

(* --------------- a Manifest written to protobuf and read back --------------- *)
\* the values given to the public fields of a Manifest before it is written
CodecManifests ==
    {[new(TestSchema, fragments, StableFormat, blob_dataset_version)
         EXCEPT !.tag = tag,
                !.transaction_file = transaction_file,
                !.index_section = index_section,
                !.timestamp_nanos = timestamp_nanos,
                !.max_fragment_id = stored_max,
                !.reader_feature_flags = reader_feature_flags,
                !.writer_version = writer_version,
                !.config = table_config] :
        fragments \in {<<Fragment(0, Some(1), TRUE)>>, <<Fragment(0, Some(1), FALSE)>>},
        blob_dataset_version \in {None, Some(0), Some(1)},
        tag \in {None, Some(""), Some("v1")},
        transaction_file \in {None, Some(""), Some("1-a.txn")},
        index_section \in {None, Some(0)},
        timestamp_nanos \in {0, 1, NANOS_PER_SECOND + 1},
        stored_max \in {None, Some(0)},
        reader_feature_flags \in {0, FLAG_MOVE_STABLE_ROW_IDS},
        writer_version \in {None, Some(WriterVersionDefault)},
        table_config \in {EmptyMap, [k \in {"a"} |-> "x"]}}

\* the Manifest as built, or after replace_schema_metadata
InitCodec ==
    /\ ArchiveIdle
    /\ \E m \in CodecManifests, new_metadata \in Metadata :
           manifests = <<replace_schema_metadata(m, new_metadata)>>
    /\ call = Called("new")

\* pb::Manifest::from(&m), Manifest::try_from of it, and pb::Manifest::from of that
RoundTrip ==
    /\ call.op = "new"
    /\ LET p == encode(Current)
           r == decode(p)
       IN call' = [op |-> "round_trip", ok |-> r.ok, p |-> p,
                   decoded |-> IF r.ok THEN Some(r.manifest) ELSE None,
                   reencoded |-> IF r.ok THEN Some(encode(r.manifest)) ELSE None]
    /\ UNCHANGED manifests
    /\ UNCHANGED archiveVars

NextCodec == RoundTrip

SpecCodec == InitCodec /\ [][NextCodec]_vars

\* C19 as stated: decode(encode(M)) equals M in every field, local_schema and
\* fragment_offsets included, for every Manifest M with writer_version set, whatever
\* values its public fields hold
C19_DecodeEncodeIsIdentity ==
    (call.op = "round_trip" /\ Current.writer_version # None) =>
        /\ call.ok
        /\ call.decoded = Some(Current)

\* the values the protobuf form can tell from None, and fragments with the row ids
\* that the reader flags ask for
Canonical(m) ==
    /\ m.tag # Some("")
    /\ m.transaction_file # Some("")
    /\ m.blob_dataset_version # Some(0)
    /\ ~row_ids_missing(encode(m))

\* C19, amended: for every Manifest M with writer_version set whose tag and
\* transaction_file are not Some(""), whose blob_dataset_version is not Some(0) and
\* whose fragments carry the row ids its reader flags ask for, decode(encode(M)) is Ok,
\* equals M in every field other than local_schema, and has the local_schema
\* recomputed from M.schema
C19_DecodeEncodeIsIdentityOnCanonical ==
    (call.op = "round_trip" /\ Current.writer_version # None /\ Canonical(Current)) =>
        /\ call.ok
        /\ [call.decoded[1] EXCEPT !.local_schema = Current.local_schema] = Current
        /\ call.decoded[1].local_schema = retain_storage_class(Current.schema, "Default")

\* a Manifest with a tag, a transaction file, a blob version, a timestamp and a stale
\* local_schema came back
C19_Witness ==
    /\ call.op = "round_trip"
    /\ call.ok
    /\ Current.writer_version # None
    /\ Current.tag = Some("v1")
    /\ Current.transaction_file = Some("1-a.txn")
    /\ Current.blob_dataset_version = Some(1)
    /\ Current.timestamp_nanos = NANOS_PER_SECOND + 1
    /\ Current.reader_feature_flags = FLAG_MOVE_STABLE_ROW_IDS
    /\ Current.local_schema # retain_storage_class(Current.schema, "Default")

uses_move_stable_row_ids(m) == HasFlag(m.reader_feature_flags, FLAG_MOVE_STABLE_ROW_IDS)

\* fragment lists with ids 0, 1, ..; rows unset or 0..MaxRows; with or without row ids
DecodeFragments ==
    UNION {[1..n -> {Fragment(0, rows, row_id_meta) :
                        rows \in {None} \cup {Some(c) : c \in 0..MaxRows},
                        row_id_meta \in BOOLEAN}]
              : n \in 0..MaxFragments}

\* a protobuf manifest with these fragments, flags and data_format
ProtoManifest(fragments, reader_feature_flags, writer_feature_flags, data_format) ==
    [encode(new(TestSchema, fragments, StableFormat, None))
        EXCEPT !.reader_feature_flags = reader_feature_flags,
               !.writer_feature_flags = writer_feature_flags,
               !.data_format = data_format]

ReaderFlags == 0..3
WriterFlags == {0, FLAG_USE_V2_FORMAT_DEPRECATED}
DataFormats == {None, Some(LegacyFormat), Some(StableFormat)}

\* protobuf manifests: any flag bits below 4 for the reader, the deprecated v2 bit or
\* none for the writer, data_format absent or present
ProtoManifests ==
    {ProtoManifest(WithIds(fragments), reader_feature_flags, writer_feature_flags,
                   data_format) :
        fragments \in DecodeFragments,
        reader_feature_flags \in ReaderFlags,
        writer_feature_flags \in WriterFlags,
        data_format \in DataFormats}

InitDecode ==
    /\ ArchiveIdle
    /\ manifests = <<>>
    /\ \E p \in ProtoManifests : call = [op |-> "read", ok |-> TRUE, err |-> "", p |-> p]

\* Manifest::try_from(p)
Decode ==
    /\ call.op = "read"
    /\ LET r == decode(call.p)
       IN /\ manifests' = IF r.ok THEN <<r.manifest>> ELSE <<>>
          /\ call' = [op |-> "decode", ok |-> r.ok,
                      err |-> IF r.ok THEN "" ELSE r.err, p |-> call.p]
    /\ UNCHANGED archiveVars

NextDecode == Decode

SpecDecode == InitDecode /\ [][NextDecode]_vars

\* C21: decoding fails, with the Internal error, exactly when reader_feature_flags has
\* MOVE_STABLE_ROW_IDS set and some fragment lacks row_id_meta; so in every decoded
\* Manifest uses_move_stable_row_ids() implies that every fragment has row_id_meta
C21_DecodeFailsIffRowIdsMissing ==
    call.op = "decode" =>
        LET flagged == (call.p.reader_feature_flags \div 2) % 2 = 1
            lacking == \E i \in 1..Len(call.p.fragments) : ~call.p.fragments[i].row_id_meta
        IN /\ ~call.ok <=> (flagged /\ lacking)
           /\ ~call.ok => call.err = "Internal"
           /\ call.ok =>
                (uses_move_stable_row_ids(manifests[1]) =>
                    \A i \in 1..Len(manifests[1].fragments) :
                        manifests[1].fragments[i].row_id_meta)

\* the decoder refused a manifest with the flag, one fragment with and one without
\* row ids
C21_Witness ==
    /\ call.op = "decode"
    /\ ~call.ok
    /\ call.err = "Internal"
    /\ \E i, j \in 1..Len(call.p.fragments) :
           call.p.fragments[i].row_id_meta /\ ~call.p.fragments[j].row_id_meta

(* ------------------- the three builders of a Manifest ------------------- *)
\* the manifests new_from_previous is given as `previous`
BuildPrevious ==
    {new(TestSchema, <<>>, StableFormat, None),
     new(TestSchema, <<Fragment(0, Some(MaxRows), TRUE)>>, LegacyFormat, Some(1))}

InitBuild ==
    /\ ArchiveIdle
    /\ manifests = <<>>
    /\ \E fragments \in DecodeFragments :
           call = [op |-> "fragments", ok |-> TRUE, fragments |-> WithIds(fragments)]

BuildNew ==
    /\ call.op = "fragments"
    /\ manifests' = <<new(TestSchema, call.fragments, StableFormat, None)>>
    /\ call' = [call EXCEPT !.op = "new"]
    /\ UNCHANGED archiveVars

BuildFromPrevious ==
    /\ call.op = "fragments"
    /\ \E previous \in BuildPrevious :
           manifests' = <<new_from_previous(previous, TestSchema, call.fragments, None)>>
    /\ call' = [call EXCEPT !.op = "new_from_previous"]
    /\ UNCHANGED archiveVars

BuildDecoded ==
    /\ call.op = "fragments"
    /\ \E reader_feature_flags \in ReaderFlags, writer_feature_flags \in WriterFlags,
          data_format \in DataFormats :
           LET r == decode(ProtoManifest(call.fragments, reader_feature_flags,
                                         writer_feature_flags, data_format))
           IN /\ manifests' = IF r.ok THEN <<r.manifest>> ELSE <<>>
              /\ call' = [call EXCEPT !.op = "decode", !.ok = r.ok]
    /\ UNCHANGED archiveVars

NextBuild == BuildNew \/ BuildFromPrevious \/ BuildDecoded

SpecBuild == InitBuild /\ [][NextBuild]_vars

\* the rows of the first n fragments, counted one fragment at a time
RECURSIVE RowsBefore(_, _)
RowsBefore(fragments, n) ==
    IF n = 0 THEN 0
    ELSE RowsBefore(fragments, n - 1)
            + (IF fragments[n].physical_rows = None THEN 0
               ELSE fragments[n].physical_rows[1])

\* C22: in every Manifest built by new, new_from_previous or decoding, fragment_offsets
\* has len(fragments) + 1 entries, starts at 0, advances by each fragment's rows (0 when
\* num_rows() is None), is non-decreasing, and ends with the total row count
C22_FragmentOffsetsAreRunningSums ==
    \A k \in 1..Len(manifests) :
        LET m == manifests[k]
            n == Len(m.fragments)
            offsets == m.fragment_offsets
        IN /\ Len(offsets) = n + 1
           /\ offsets[1] = 0
           /\ \A i \in 1..n :
                  /\ offsets[i + 1] = offsets[i]
                        + (IF m.fragments[i].physical_rows = None THEN 0
                           ELSE m.fragments[i].physical_rows[1])
                  /\ offsets[i] <= offsets[i + 1]
           /\ offsets[n + 1] = RowsBefore(m.fragments, n)

\* a decoded manifest of two fragments, the first without a row count, the second with
\* rows
C22_Witness ==
    /\ call.op = "decode"
    /\ call.ok
    /\ Len(manifests) = 1
    /\ Len(manifests[1].fragments) = 2
    /\ manifests[1].fragments[1].physical_rows = None
    /\ manifests[1].fragments[2].physical_rows = Some(MaxRows)
    /\ manifests[1].fragment_offsets = <<0, 0, MaxRows>>

(* ------------------- the largest field id in use ------------------- *)
unwrap_or(o, default) == IF o = None THEN default ELSE o[1]

\* Iterator::max over a set of ids
max(ids) == IF ids = {} THEN None ELSE Some(CHOOSE x \in ids : \A y \in ids : y <= x)

\* Schema::max_field_id
schema_max_field_id(schema) ==
    max({schema.fields[i].id : i \in 1..Len(schema.fields)})

\* the ids of the data files left out
max_field_id_of_schema(self) == unwrap_or(schema_max_field_id(self.schema), -1)

\* Manifest::max_field_id
max_field_id(self) ==
    LET schema_max_id == unwrap_or(schema_max_field_id(self.schema), -1)
        fragment_max_id ==
            max(UNION {UNION {Range(self.fragments[i].files[j].fields)
                                 : j \in 1..Len(self.fragments[i].files)}
                          : i \in 1..Len(self.fragments)})
    IN IF schema_max_id >= unwrap_or(fragment_max_id, -1)
       THEN schema_max_id
       ELSE unwrap_or(fragment_max_id, -1)

\* schemas over the field ids 0, 2 and 44
FieldSchemas ==
    {[fields |-> SelectSeq(<<Field(0, "Default", EmptyMap), Field(2, "Default", EmptyMap),
                             Field(44, "Blob", EmptyMap)>>,
                           LAMBDA f : f.id \in ids),
      metadata |-> EmptyMap] : ids \in SUBSET {0, 2, 44}}

\* up to two data files per fragment
FileLists ==
    UNION {[1..n -> {DataFile(<<0, 1, 43>>), DataFile(<<2>>), DataFile(<<>>)}]
              : n \in 0..2}

FieldFragments ==
    UNION {[1..n -> {[Fragment(0, None, FALSE) EXCEPT !.files = files]
                        : files \in FileLists}]
              : n \in 0..MaxFragments}

InitFieldId ==
    /\ ArchiveIdle
    /\ \E schema \in FieldSchemas, fragments \in FieldFragments :
           manifests = <<new(schema, WithIds(fragments), StableFormat, None)>>
    /\ call = Called("new")

MaxFieldId ==
    /\ call.op = "new"
    /\ call' = [op |-> "max_field_id", ok |-> TRUE, result |-> max_field_id(Current)]
    /\ UNCHANGED manifests
    /\ UNCHANGED archiveVars

NextFieldId == MaxFieldId

SpecFieldId == InitFieldId /\ [][NextFieldId]_vars

\* the field ids of the schema
SchemaIds(m) == {m.schema.fields[i].id : i \in 1..Len(m.schema.fields)}

\* the field ids listed by some data file of some fragment
FileIds(m) ==
    {id \in 0..44 :
        \E i \in 1..Len(m.fragments) :
            \E j \in 1..Len(m.fragments[i].files) :
                \E k \in 1..Len(m.fragments[i].files[j].fields) :
                    m.fragments[i].files[j].fields[k] = id}

\* C23: max_field_id() is the largest of the schema's field ids and of the field ids
\* listed by any data file of any fragment, also those no longer in the schema, and -1
\* when there is no id at all; it is never below Schema::max_field_id()
C23_MaxFieldIdCoversDataFiles ==
    call.op = "max_field_id" =>
        LET ids == SchemaIds(Current) \cup FileIds(Current)
        IN /\ ids = {} => call.result = -1
           /\ ids # {} => call.result \in ids
           /\ \A id \in ids : id <= call.result
           /\ \A id \in SchemaIds(Current) : id <= call.result

\* schema ids {0, 2}, a fragment with data files [0, 1, 43] and [2]: the answer is 43
C23_Witness ==
    /\ call.op = "max_field_id"
    /\ SchemaIds(Current) = {0, 2}
    /\ Len(Current.fragments) = 1
    /\ Current.fragments[1].files = <<DataFile(<<0, 1, 43>>), DataFile(<<2>>)>>
    /\ call.result = 43

(* ------------------- config and field metadata edits ------------------- *)
InitEdit ==
    /\ ArchiveIdle
    /\ manifests = <<new(TestSchema, <<Fragment(0, Some(1), TRUE)>>, StableFormat, None)>>
    /\ call = Called("new")

EditUpdateConfig ==
    /\ \E upsert_values \in Configs :
           /\ Replace(update_config(Current, upsert_values))
           /\ call' = [op |-> "update_config", ok |-> TRUE, before |-> Current,
                       upsert_values |-> upsert_values]
    /\ UNCHANGED archiveVars

EditDeleteConfigKeys ==
    /\ \E delete_keys \in SUBSET {"a", "b"} :
           /\ Replace(delete_config_keys(Current, delete_keys))
           /\ call' = [op |-> "delete_config_keys", ok |-> TRUE, before |-> Current,
                       delete_keys |-> delete_keys]
    /\ UNCHANGED archiveVars

EditReplaceFieldMetadata ==
    /\ \E field_id \in FieldIds, new_metadata \in Metadata :
           LET r == replace_field_metadata(Current, field_id, new_metadata)
           IN /\ Replace(r.manifest)
              /\ call' = [op |-> "replace_field_metadata", ok |-> r.ok, err |-> r.err,
                          before |-> Current, field_id |-> field_id,
                          new_metadata |-> new_metadata]
    /\ UNCHANGED archiveVars

NextEdit == EditUpdateConfig \/ EditDeleteConfigKeys \/ EditReplaceFieldMetadata

SpecEdit == InitEdit /\ [][NextEdit]_vars

\* the fields of a Manifest other than schema and config
OtherFields == {"local_schema", "version", "writer_version", "fragments",
                "version_aux_data", "index_section", "timestamp_nanos", "tag",
                "reader_feature_flags", "writer_feature_flags", "max_fragment_id",
                "transaction_file", "fragment_offsets", "next_row_id",
                "data_storage_format", "blob_dataset_version"}

C26_ConfigEditsTouchOnlyTheirKeys ==
    /\ call.op = "update_config" =>
         /\ DOMAIN Current.config = DOMAIN call.before.config \cup DOMAIN call.upsert_values
         /\ \A key \in DOMAIN call.upsert_values :
                Current.config[key] = call.upsert_values[key]
         /\ \A key \in DOMAIN call.before.config \ DOMAIN call.upsert_values :
                Current.config[key] = call.before.config[key]
         /\ \A name \in OtherFields \cup {"schema"} : Current[name] = call.before[name]
    /\ call.op = "delete_config_keys" =>
         /\ DOMAIN Current.config = DOMAIN call.before.config \ call.delete_keys
         /\ \A key \in DOMAIN Current.config :
                Current.config[key] = call.before.config[key]
         /\ \A name \in OtherFields \cup {"schema"} : Current[name] = call.before[name]

\* an update that overwrote the value of a key and added another key
C26_Witness ==
    /\ call.op = "update_config"
    /\ DOMAIN call.before.config = {"a"}
    /\ DOMAIN call.upsert_values = {"a", "b"}
    /\ call.before.config["a"] # call.upsert_values["a"]
    /\ Current.config = call.upsert_values

(* ------------------- a version and its successors ------------------- *)
\* first versions: as built, or as committed with every public field set
SuccessorRoots ==
    {new(TestSchema, <<>>, data_storage_format, blob_dataset_version) :
        data_storage_format \in DataStorageFormats,
        blob_dataset_version \in {None, Some(1)}}
    \cup
    {[new(TestSchema, <<>>, data_storage_format, blob_dataset_version)
         EXCEPT !.tag = Some("v1"),
                !.transaction_file = Some("1-a.txn"),
                !.index_section = Some(7),
                !.reader_feature_flags = FLAG_MOVE_STABLE_ROW_IDS,
                !.writer_feature_flags = FLAG_MOVE_STABLE_ROW_IDS,
                !.max_fragment_id = Some(4),
                !.next_row_id = 5] :
        data_storage_format \in DataStorageFormats,
        blob_dataset_version \in {None, Some(1)}}

InitSuccessor ==
    /\ ArchiveIdle
    /\ \E m \in SuccessorRoots : manifests = <<m>>
    /\ call = Called("new")

SuccessorNewFromPrevious ==
    /\ Len(manifests) < MaxChain
    /\ \E new_blob_version \in {None, Some(2)} :
           /\ manifests' = Append(manifests,
                  new_from_previous(Current, TestSchema, <<Fragment(0, Some(1), TRUE)>>,
                                    new_blob_version))
           /\ call' = [op |-> "new_from_previous", ok |-> TRUE, previous |-> Current,
                       new_blob_version |-> new_blob_version]
    /\ UNCHANGED archiveVars

SuccessorSetTimestamp ==
    /\ Replace(set_timestamp(Current, NANOS_PER_SECOND + 1))
    /\ call' = Called("set_timestamp")
    /\ UNCHANGED archiveVars

SuccessorUpdateConfig ==
    /\ Replace(update_config(Current, [key \in {"a"} |-> "x"]))
    /\ call' = Called("update_config")
    /\ UNCHANGED archiveVars

NextSuccessor ==
    \/ SuccessorNewFromPrevious
    \/ SuccessorSetTimestamp
    \/ SuccessorUpdateConfig

SpecSuccessor == InitSuccessor /\ [][NextSuccessor]_vars

\* C25: new_from_previous(prev, schema, fragments, new_blob) has version prev.version + 1;
\* max_fragment_id, next_row_id, data_storage_format and config of prev;
\* blob_dataset_version new_blob if given, else prev's; index_section, timestamp_nanos,
\* tag, transaction_file and both flag sets reset; prev is unchanged. Along a chain the
\* versions go up by 1 and blob_dataset_version never goes from Some back to None
C25_SuccessorCarriesAndResets ==
    /\ call.op = "new_from_previous" =>
         LET prev == call.previous
             m == Current
         IN /\ m.version = prev.version + 1
            /\ m.max_fragment_id = prev.max_fragment_id
            /\ m.next_row_id = prev.next_row_id
            /\ m.data_storage_format = prev.data_storage_format
            /\ m.config = prev.config
            /\ m.blob_dataset_version =
                 IF call.new_blob_version # None THEN call.new_blob_version
                 ELSE prev.blob_dataset_version
            /\ m.index_section = None
            /\ m.timestamp_nanos = 0
            /\ m.tag = None
            /\ m.transaction_file = None
            /\ m.reader_feature_flags = 0
            /\ m.writer_feature_flags = 0
            /\ manifests[Len(manifests) - 1] = prev
    /\ \A k \in 1..(Len(manifests) - 1) :
         /\ manifests[k + 1].version = manifests[k].version + 1
         /\ manifests[k].blob_dataset_version # None
              => manifests[k + 1].blob_dataset_version # None

\* the third version of a chain, made without a new blob version from a previous
\* version that had a timestamp, a config and a blob version to carry
C25_Witness ==
    /\ call.op = "new_from_previous"
    /\ Len(manifests) = 3
    /\ manifests[1].tag = Some("v1")
    /\ manifests[1].blob_dataset_version = None
    /\ manifests[2].blob_dataset_version = Some(2)
    /\ call.previous.timestamp_nanos # 0
    /\ call.previous.config # EmptyMap
    /\ call.new_blob_version = None
    /\ Current.blob_dataset_version = Some(2)
    /\ Current.version = 3

(* ------------------- version inversion and name order ------------------- *)
\* every u64
U64 == 0..(2^U64Bits - 1)

InitInversion ==
    /\ ArchiveIdle
    /\ manifests = <<>>
    /\ \E version \in U64, other \in U64 :
           call = [op |-> "versions", ok |-> TRUE, version |-> version, other |-> other]

\* two versions inverted, named, and inverted back
ToInvertedVersion ==
    /\ call.op = "versions"
    /\ call' = [op |-> "to_inverted_version", ok |-> TRUE,
                version |-> call.version, other |-> call.other,
                inverted |-> to_inverted_version(call.version),
                other_inverted |-> to_inverted_version(call.other),
                name |-> ArchiveFileName(call.version),
                other_name |-> ArchiveFileName(call.other),
                back |-> from_inverted_version(to_inverted_version(call.version))]
    /\ UNCHANGED manifests
    /\ UNCHANGED archiveVars

\* a value read from a file name turned into a version and inverted again
FromInvertedVersion ==
    /\ call.op = "versions"
    /\ call' = [op |-> "from_inverted_version", ok |-> TRUE,
                inverted |-> call.version,
                version |-> from_inverted_version(call.version),
                back |-> to_inverted_version(from_inverted_version(call.version))]
    /\ UNCHANGED manifests
    /\ UNCHANGED archiveVars

NextInversion == ToInvertedVersion \/ FromInvertedVersion

SpecInversion == InitInversion /\ [][NextInversion]_vars

\* C27: from_inverted_version(to_inverted_version(v)) = v and
\* to_inverted_version(from_inverted_version(x)) = x for every u64, 0 and u64::MAX
\* included, and no intermediate value leaves the u64 range
C27_InversionIsAnInvolution ==
    /\ call.op = "to_inverted_version" =>
         /\ call.inverted \in U64
         /\ call.back = call.version
    /\ call.op = "from_inverted_version" =>
         /\ call.version \in U64
         /\ call.back = call.inverted

\* u64::MAX went through to_inverted_version and came back
C27_Witness ==
    /\ call.op = "to_inverted_version"
    /\ call.version = 2^U64Bits - 1
    /\ call.inverted = 0
    /\ call.back = 2^U64Bits - 1

\* a digit string sorts before another of the same length
LexLess(a, b) ==
    \E k \in 1..Len(a) :
        /\ a[k] < b[k]
        /\ \A j \in 1..(k - 1) : a[j] = b[j]

\* C28: to_inverted_version reverses the order strictly, and the zero-padded file names
\* sort lexicographically as the inverted values sort numerically, so the file of the
\* newer version sorts first
C28_NewestVersionSortsFirst ==
    call.op = "to_inverted_version" =>
        /\ call.version < call.other <=> call.inverted > call.other_inverted
        /\ Len(call.name.stem) = Len(call.other_name.stem)
        /\ LexLess(call.name.stem, call.other_name.stem)
             <=> call.inverted < call.other_inverted
        /\ call.version > call.other => LexLess(call.name.stem, call.other_name.stem)
        /\ call.name.suffix = call.other_name.suffix

\* a newer version with a one-digit inverted value and an older one with two digits
C28_Witness ==
    /\ call.op = "to_inverted_version"
    /\ call.version > call.other
    /\ call.inverted < 10
    /\ call.other_inverted >= 10
    /\ LexLess(call.name.stem, call.other_name.stem)

(* ------------------- WriterVersion ------------------- *)
\* a version string is kept as the list of its '.'-separated parts (str::split('.')),
\* each part a list of characters
Digits == <<"0", "1", "2", "3", "4", "5", "6", "7", "8", "9">>

DigitOf(c) == (CHOOSE d \in 1..10 : Digits[d] = c) - 1

IsDigit(c) == \E d \in 1..10 : Digits[d] = c

\* the value of the first k characters of a digit string
RECURSIVE ValueOfPrefix(_, _)
ValueOfPrefix(part, k) ==
    IF k = 0 THEN 0 ELSE 10 * ValueOfPrefix(part, k - 1) + DigitOf(part[k])

\* str::parse::<u32>().ok(): None for the empty string and for any non-digit
parse(part) ==
    IF part = <<>> \/ \E k \in 1..Len(part) : ~IsDigit(part[k])
    THEN None
    ELSE Some(ValueOfPrefix(part, Len(part)))

\* format!("{}", n) of a u32
RECURSIVE to_string(_)
to_string(n) ==
    IF n < 10 THEN <<Digits[n + 1]>> ELSE Append(to_string(n \div 10), Digits[(n % 10) + 1])

\* parts.next().unwrap_or("0")
next_unwrap_or_0(parts, i) == IF i <= Len(parts) THEN parts[i] ELSE <<"0">>

\* WriterVersion::semver
semver(self) ==
    LET parts == self.version
        major == parse(next_unwrap_or_0(parts, 1))
        minor == parse(next_unwrap_or_0(parts, 2))
        patch == parse(next_unwrap_or_0(parts, 3))
        tag == IF Len(parts) >= 4 THEN Some(parts[4]) ELSE None
    IN IF major = None \/ minor = None \/ patch = None
       THEN None
       ELSE Some([major |-> major[1], minor |-> minor[1], patch |-> patch[1], tag |-> tag])

\* a version counted as older than its own triple
older_than_or_equal(self, major, minor, patch) ==
    LET version == semver(self)[1]
    IN \/ version.major < major
       \/ version.major = major /\ version.minor < minor
       \/ version.major = major /\ version.minor = minor /\ version.patch <= patch

\* WriterVersion::older_than, for a version that semver_or_panic accepts
older_than(self, major, minor, patch) ==
    LET version == semver(self)[1]
    IN \/ version.major < major
       \/ version.major = major /\ version.minor < minor
       \/ version.major = major /\ version.minor = minor /\ version.patch < patch

VersionParts == {"Major", "Minor", "Patch"}

\* the parts below the bumped one set to zero
bump_zeroing_lower(self, part, keep_tag) ==
    LET parts == semver(self)[1]
        tag == IF keep_tag THEN parts.tag ELSE None
        numbers == IF part = "Major" THEN <<parts.major + 1, 0, 0>>
                   ELSE IF part = "Minor" THEN <<parts.major, parts.minor + 1, 0>>
                   ELSE <<parts.major, parts.minor, parts.patch + 1>>
        new_version == <<to_string(numbers[1]), to_string(numbers[2]),
                         to_string(numbers[3])>>
    IN [library |-> self.library,
        version |-> IF tag # None THEN Append(new_version, tag[1]) ELSE new_version]

\* WriterVersion::bump, for a version that semver_or_panic accepts
bump(self, part, keep_tag) ==
    LET parts == semver(self)[1]
        tag == IF keep_tag THEN parts.tag ELSE None
        new_parts == IF part = "Major" THEN <<parts.major + 1, parts.minor, parts.patch>>
                     ELSE IF part = "Minor"
                          THEN <<parts.major, parts.minor + 1, parts.patch>>
                          ELSE <<parts.major, parts.minor, parts.patch + 1>>
        new_version == IF tag # None
                       THEN <<to_string(new_parts[1]), to_string(new_parts[2]),
                              to_string(new_parts[3]), tag[1]>>
                       ELSE <<to_string(new_parts[1]), to_string(new_parts[2]),
                              to_string(new_parts[3])>>
    IN [library |-> self.library, version |-> new_version]

\* version numbers of one and of two digits
PartNumbers == {0, 2, 10}

Triples == PartNumbers \X PartNumbers \X PartNumbers

\* tags: none, "b", and the empty tag of a trailing dot
Tags == {None, Some(<<"b">>), Some(<<>>)}

\* the version string "major.minor.patch" or "major.minor.patch.tag" written out
Written(triple, tag) ==
    LET numbers == <<to_string(triple[1]), to_string(triple[2]), to_string(triple[3])>>
    IN IF tag = None THEN numbers ELSE Append(numbers, tag[1])

\* version strings with their numbers: written in full, or with parts missing ("2",
\* "2.10"), or with a zero in front ("02.0.10"), or with a dot inside the tag
\* ("2.0.10.b.1")
Parseable ==
    {[version |-> Written(triple, tag), triple |-> triple]
        : triple \in Triples, tag \in {None, Some(<<"b">>)}}
    \cup {[version |-> <<<<"2">>>>, triple |-> <<2, 0, 0>>],
          [version |-> <<<<"2">>, <<"1", "0">>>>, triple |-> <<2, 10, 0>>],
          [version |-> <<<<"0", "2">>, <<"0">>, <<"1", "0">>>>, triple |-> <<2, 0, 10>>],
          [version |-> <<<<"2">>, <<"0">>, <<"1", "0">>, <<"b">>, <<"1">>>>,
           triple |-> <<2, 0, 10>>]}

\* version strings that semver refuses: "", "b.2.0", "2..0"
Unparseable ==
    {<< <<>> >>, << <<"b">>, <<"2">>, <<"0">> >>, << <<"2">>, <<>>, <<"0">> >>}

InitOlderThan ==
    /\ ArchiveIdle
    /\ manifests = <<>>
    /\ \/ \E x \in Parseable, y \in Triples, z \in Triples :
              call = [op |-> "versions", ok |-> TRUE,
                      versions |-> <<[library |-> "lance", version |-> x.version],
                                     [library |-> "lance", version |-> Written(y, None)],
                                     [library |-> "lance", version |-> Written(z, None)]>>,
                      triples |-> <<x.triple, y, z>>]
       \/ \E version \in Unparseable :
              call = [op |-> "versions", ok |-> TRUE,
                      versions |-> <<[library |-> "lance", version |-> version],
                                     [library |-> "lance", version |-> version],
                                     [library |-> "lance", version |-> version]>>,
                      triples |-> <<>>]

\* each of the three versions asked whether it is older than the triple of each
OlderThan ==
    /\ call.op = "versions"
    /\ IF \E i \in 1..3 : semver(call.versions[i]) = None
       THEN call' = [call EXCEPT !.op = "older_than", !.ok = FALSE]
       ELSE call' = [op |-> "older_than", ok |-> TRUE,
                     versions |-> call.versions, triples |-> call.triples,
                     older |-> [i \in 1..3 |-> [j \in 1..3 |->
                                  older_than(call.versions[i], call.triples[j][1],
                                             call.triples[j][2], call.triples[j][3])]]]
    /\ UNCHANGED manifests
    /\ UNCHANGED archiveVars

NextOlderThan == OlderThan

SpecOlderThan == InitOlderThan /\ [][NextOlderThan]_vars

\* (major, minor, patch) of a before that of b
TripleLess(a, b) ==
    \/ a[1] < b[1]
    \/ a[1] = b[1] /\ a[2] < b[2]
    \/ a[1] = b[1] /\ a[2] = b[2] /\ a[3] < b[3]

\* C29: for versions with a parseable version string, older_than is the lexicographic
\* order of (major, minor, patch): no version is older than its own triple, of two
\* different triples exactly one is older, the order is transitive, and the tag has no
\* part in the answer
C29_OlderThanIsStrictTotalOrder ==
    (call.op = "older_than" /\ call.ok) =>
        /\ \A i, j \in 1..3 :
               call.older[i][j] <=> TripleLess(call.triples[i], call.triples[j])
        /\ \A i \in 1..3 : ~call.older[i][i]
        /\ \A i, j \in 1..3 :
               call.triples[i] # call.triples[j]
                   => (call.older[i][j] <=> ~call.older[j][i])
        /\ \A i, j, k \in 1..3 :
               (call.older[i][j] /\ call.older[j][k]) => call.older[i][k]
        /\ \A i, j, k \in 1..3 :
               call.triples[i] = call.triples[j] => call.older[i][k] = call.older[j][k]

\* 2.10.0.b is older than 10.2.0 and not older than 2.10.0, which has no tag
C29_Witness ==
    /\ call.op = "older_than"
    /\ call.ok
    /\ call.versions[1].version = <<<<"2">>, <<"1", "0">>, <<"0">>, <<"b">>>>
    /\ call.versions[2].version = <<<<"2">>, <<"1", "0">>, <<"0">>>>
    /\ call.versions[3].version = <<<<"1", "0">>, <<"2">>, <<"0">>>>
    /\ call.older[1][3]
    /\ ~call.older[3][1]
    /\ ~call.older[1][2]
    /\ ~call.older[2][1]

\* writer versions to bump, with the numbers and the tag of their version strings
Bumpable ==
    {[self |-> [library |-> library, version |-> Written(triple, tag)],
      triple |-> triple, tag |-> tag]
        : library \in {"lance", "other"}, triple \in Triples, tag \in Tags}
    \cup {[self |-> [library |-> "lance", version |-> <<<<"2">>, <<"1", "0">>>>],
           triple |-> <<2, 10, 0>>, tag |-> None],
          [self |-> [library |-> "lance",
                     version |-> <<<<"2">>, <<"0">>, <<"1", "0">>, <<"b">>, <<"1">>>>],
           triple |-> <<2, 0, 10>>, tag |-> Some(<<"b">>)]}

InitBump ==
    /\ ArchiveIdle
    /\ manifests = <<>>
    /\ \/ \E w \in Bumpable :
              call = [op |-> "version", ok |-> TRUE, self |-> w.self,
                      triple |-> w.triple, tag |-> w.tag]
       \/ \E version \in Unparseable :
              call = [op |-> "version", ok |-> TRUE,
                      self |-> [library |-> "lance", version |-> version],
                      triple |-> <<>>, tag |-> None]

\* bump(part, keep_tag), then semver_or_panic of the result and older_than of the
\* original against it, as test_writer_version does
Bump ==
    /\ call.op = "version"
    /\ \E part \in VersionParts, keep_tag \in BOOLEAN :
           IF semver(call.self) = None
           THEN call' = [call EXCEPT !.op = "bump", !.ok = FALSE]
           ELSE LET bumped == bump(call.self, part, keep_tag)
                    bumped_parts == semver(bumped)
                IN call' = [op |-> "bump", ok |-> TRUE, self |-> call.self,
                            triple |-> call.triple, tag |-> call.tag,
                            part |-> part, keep_tag |-> keep_tag,
                            bumped |-> bumped, bumped_parts |-> bumped_parts,
                            older |-> IF bumped_parts = None THEN FALSE
                                      ELSE older_than(call.self, bumped_parts[1].major,
                                                      bumped_parts[1].minor,
                                                      bumped_parts[1].patch)]
    /\ UNCHANGED manifests
    /\ UNCHANGED archiveVars

NextBump == Bump

SpecBump == InitBump /\ [][NextBump]_vars

\* C30: bump(part, keep_tag) keeps the library, makes the number at part one larger and
\* leaves the other two as they were (lower parts are not zeroed); the tag is the
\* original tag if keep_tag and absent otherwise; the original is older_than the bumped
\* triple for Major, Minor and Patch
C30_BumpRaisesOnePart ==
    (call.op = "bump" /\ call.ok) =>
        /\ call.bumped.library = call.self.library
        /\ call.bumped_parts # None
        /\ LET after == call.bumped_parts[1]
               at(part) == IF call.part = part THEN 1 ELSE 0
           IN /\ after.major = call.triple[1] + at("Major")
              /\ after.minor = call.triple[2] + at("Minor")
              /\ after.patch = call.triple[3] + at("Patch")
              /\ after.tag = IF call.keep_tag THEN call.tag ELSE None
        /\ call.older

\* the major number of 2.2.10.b bumped: 3.2.10.b, the lower parts and the tag kept
C30_Witness ==
    /\ call.op = "bump"
    /\ call.ok
    /\ call.part = "Major"
    /\ call.keep_tag
    /\ call.self.version = <<<<"2">>, <<"2">>, <<"1", "0">>, <<"b">>>>
    /\ call.bumped.version = <<<<"3">>, <<"2">>, <<"1", "0">>, <<"b">>>>
    /\ call.older

(* ------------------- dataset statistics ------------------- *)
\* Schema::field_ids: the ids in schema order
field_ids(schema) == [i \in 1..Len(schema.fields) |-> schema.fields[i].id]

\* a dataset taken for a current one whatever its storage format
never_legacy_storage(m) == FALSE

\* Dataset::is_legacy_storage
is_legacy_storage(m) == m.data_storage_format = LegacyFormat

\* HashMap::from_iter of a zeroed FieldStatistics per field id
zeroed_field_stats(ids) == [id \in Range(ids) |-> [id |-> id, bytes_on_disk |-> 0]]

\* the bytes of a probe written over the tally instead of added to it
tally_overwriting(field_stats, fragment_stats) ==
    [id \in DOMAIN field_stats |->
        IF \E k \in 1..Len(fragment_stats) : fragment_stats[k][1] = id
        THEN [id |-> id,
              bytes_on_disk |-> fragment_stats[
                  CHOOSE k \in 1..Len(fragment_stats) : fragment_stats[k][1] = id][2]]
        ELSE field_stats[id]]

\* the body of try_for_each: the pairs of one probe added to the fields the map has
RECURSIVE tally_first(_, _, _)
tally_first(field_stats, fragment_stats, n) ==
    IF n = 0 THEN field_stats
    ELSE LET before == tally_first(field_stats, fragment_stats, n - 1)
             field_id == fragment_stats[n][1]
             bytes == fragment_stats[n][2]
         IN IF field_id \in DOMAIN before
            THEN [before EXCEPT ![field_id].bytes_on_disk = @ + bytes]
            ELSE before

tally(field_stats, fragment_stats) ==
    tally_first(field_stats, fragment_stats, Len(fragment_stats))

\* field_ids.into_iter().map(|id| field_stats.remove(id).unwrap()).collect()
collect_in_schema_order(ids, field_stats) == [i \in 1..Len(ids) |-> field_stats[ids[i]]]

\* what FileFragment::storage_stats of one fragment answers: (field id, bytes) pairs,
\* or an error
ProbeReports ==
    {[ok |-> TRUE, pairs |-> pairs] :
        pairs \in {<<>>, <<<<0, 1>>>>, <<<<0, 1>>, <<2, 2>>>>, <<<<5, 1>>, <<0, 2>>>>}}
    \cup {[ok |-> FALSE, pairs |-> <<>>]}

\* schemas with the ids in ascending and in another order
StatsSchemas ==
    {TestSchema,
     [fields |-> <<Field(2, "Default", EmptyMap), Field(0, "Default", EmptyMap)>>,
      metadata |-> EmptyMap]}

\* object_store.io_parallelism()
IoParallelism == {1, 2}

InitStats ==
    /\ ArchiveIdle
    /\ \E schema \in StatsSchemas, data_storage_format \in DataStorageFormats,
          n \in 0..MaxFragments :
           /\ manifests = <<new(schema, [i \in 1..n |-> Fragment(i - 1, Some(1), TRUE)],
                                data_storage_format, None)>>
           /\ \E reports \in [1..n -> ProbeReports], io_parallelism \in IoParallelism :
                  call = [op |-> "dataset", ok |-> TRUE, reports |-> reports,
                          io_parallelism |-> io_parallelism]

\* calculate_data_stats up to the stream: the zeroed map; a legacy dataset answers at once
CalculateDataStats ==
    /\ call.op = "dataset"
    /\ LET ids == field_ids(Current.schema)
           field_stats == zeroed_field_stats(ids)
       IN call' = [op |-> IF is_legacy_storage(Current) THEN "done" ELSE "stream",
                   ok |-> TRUE, reports |-> call.reports,
                   io_parallelism |-> call.io_parallelism,
                   next |-> 1, in_flight |-> {}, completed |-> <<>>,
                   field_stats |-> field_stats,
                   fields |-> IF is_legacy_storage(Current)
                              THEN collect_in_schema_order(ids, field_stats)
                              ELSE <<>>]
    /\ UNCHANGED manifests
    /\ UNCHANGED archiveVars

\* buffer_unordered takes the next fragment of the stream and starts its probe
StartProbe ==
    /\ call.op = "stream"
    /\ call.next <= Len(Current.fragments)
    /\ Cardinality(call.in_flight) < call.io_parallelism
    /\ call' = [call EXCEPT !.in_flight = @ \cup {call.next}, !.next = @ + 1]
    /\ UNCHANGED manifests
    /\ UNCHANGED archiveVars

\* one probe in flight completes: its pairs are tallied, or its error ends the call
CompleteProbe ==
    /\ call.op = "stream"
    /\ \E i \in call.in_flight :
           IF call.reports[i].ok
           THEN call' = [call EXCEPT !.in_flight = @ \ {i},
                                     !.completed = Append(@, i),
                                     !.field_stats = tally(@, call.reports[i].pairs)]
           ELSE call' = [call EXCEPT !.op = "done", !.ok = FALSE,
                                     !.completed = Append(@, i)]
    /\ UNCHANGED manifests
    /\ UNCHANGED archiveVars

\* the stream is exhausted: the statistics in the order of field_ids
CollectDataStats ==
    /\ call.op = "stream"
    /\ call.next > Len(Current.fragments)
    /\ call.in_flight = {}
    /\ call' = [call EXCEPT !.op = "done",
                            !.fields = collect_in_schema_order(field_ids(Current.schema),
                                                               call.field_stats)]
    /\ UNCHANGED manifests
    /\ UNCHANGED archiveVars

NextStats == CalculateDataStats \/ StartProbe \/ CompleteProbe \/ CollectDataStats

SpecStats == InitStats /\ [][NextStats]_vars

\* the bytes the first n pairs of a probe report for a field id
RECURSIVE BytesInPairs(_, _, _)
BytesInPairs(pairs, id, n) ==
    IF n = 0 THEN 0
    ELSE BytesInPairs(pairs, id, n - 1) + (IF pairs[n][1] = id THEN pairs[n][2] ELSE 0)

\* the bytes the probes of the first n fragments report for a field id
RECURSIVE BytesReported(_, _, _)
BytesReported(reports, id, n) ==
    IF n = 0 THEN 0
    ELSE BytesReported(reports, id, n - 1)
            + BytesInPairs(reports[n].pairs, id, Len(reports[n].pairs))

\* C31: on a non-legacy dataset calculate_data_stats returns one entry per schema field
\* id, in the order of the schema's field ids, with bytes_on_disk the sum over all
\* fragments of the bytes reported for that id; bytes for ids the schema does not have
\* are ignored; the order in which the probes complete makes no difference
C31_StatsSumProbesPerSchemaField ==
    (call.op = "done" /\ call.ok /\ ~(Current.data_storage_format = LegacyFormat)) =>
        /\ Len(call.fields) = Len(Current.schema.fields)
        /\ \A i \in 1..Len(call.fields) :
               /\ call.fields[i].id = Current.schema.fields[i].id
               /\ call.fields[i].bytes_on_disk
                    = BytesReported(call.reports, Current.schema.fields[i].id,
                                    Len(call.reports))
        /\ Len(call.completed) = Len(Current.fragments)

\* two probes that completed in the reverse of the fragment order, the second reporting
\* an id the schema lacks, and a field with bytes from both
C31_Witness ==
    /\ call.op = "done"
    /\ call.ok
    /\ call.completed = <<2, 1>>
    /\ call.reports[1].pairs = <<<<0, 1>>, <<2, 2>>>>
    /\ call.reports[2].pairs = <<<<5, 1>>, <<0, 2>>>>
    /\ \E i \in 1..Len(call.fields) :
           call.fields[i].id = 0 /\ call.fields[i].bytes_on_disk = 3

\* C32: on a dataset of the legacy storage format calculate_data_stats returns Ok with
\* one entry per schema field id, bytes_on_disk 0 in each, and no storage_stats probe is
\* issued
C32_LegacyStatsAreZeroWithoutProbes ==
    (call.op \in {"stream", "done"} /\ Current.data_storage_format = LegacyFormat) =>
        /\ call.op = "done"
        /\ call.ok
        /\ call.next = 1
        /\ call.in_flight = {}
        /\ call.completed = <<>>
        /\ Len(call.fields) = Len(Current.schema.fields)
        /\ \A i \in 1..Len(call.fields) :
               /\ call.fields[i].id = Current.schema.fields[i].id
               /\ call.fields[i].bytes_on_disk = 0

\* a legacy dataset whose fragments would have reported bytes, answered with zeroes
C32_Witness ==
    /\ call.op = "done"
    /\ Current.data_storage_format = LegacyFormat
    /\ Len(Current.fragments) = 2
    /\ call.reports[1].pairs = <<<<0, 1>>>>
    /\ ~call.reports[2].ok
    /\ call.ok
    /\ Len(call.fields) = 2

(* ------------------- LanceSchemaProvider ------------------- *)
\* the calls of table() that run at the same time
Tasks == {1, 2}

\* the table name the calls ask for; the map keeps it in one shard
TableName == "t"

\* a cached provider taken for fresh whatever the latest version is
never_stale(latest, version) == FALSE

\* let is_stale = latest != ds.version().version
is_stale(latest, version) == latest # version

\* DashMap::remove and DashMap::insert take the shard's write lock, which is free when no
\* Ref into the shard is alive
write_lock_free(p) == p.readers = {}

\* LanceSchemaProvider::try_new over a namespace whose table is at version 1
InitProvider ==
    /\ ArchiveAtRest
    /\ manifests = <<>>
    /\ call = NoCall
    /\ flushers = NoFlushers
    /\ provider = [tables |-> EmptyMap,
                   readers |-> {},
                   latest |-> 1,
                   pc |-> [t \in Tasks |-> "idle"],
                   existing |-> [t \in Tasks |-> 0],
                   dataset |-> [t \in Tasks |-> 0],
                   result |-> [t \in Tasks |-> [ok |-> TRUE, cached |-> FALSE, version |-> 0]]]

ProviderStep == UNCHANGED <<store, archive, config, lastOp, flushedEver, session,
                            firstInstance, failures, manifests, call, flushers>>

\* another writer commits a version of the table
NamespaceCommit ==
    /\ provider.latest < MaxVersion
    /\ provider' = [provider EXCEPT !.latest = @ + 1]
    /\ ProviderStep

\* table(): self.tables.get(table_name); a hit keeps the Ref, and with it the shard's
\* read lock, in `existing`
TableGet(t) ==
    /\ provider.pc[t] = "idle"
    /\ IF TableName \in DOMAIN provider.tables
       THEN provider' = [provider EXCEPT !.readers = @ \cup {t},
                                         !.existing[t] = provider.tables[TableName],
                                         !.pc[t] = "latest"]
       ELSE provider' = [provider EXCEPT !.pc[t] = "load"]
    /\ ProviderStep

\* ds.latest_version_id().await and the comparison: an error returns and drops
\* `existing`; a fresh provider is returned and `existing` dropped; a stale one goes on
\* to the removal with `existing` alive
LatestVersionId(t) ==
    /\ provider.pc[t] = "latest"
    /\ \E failed \in BOOLEAN :
           IF failed
           THEN provider' = [provider EXCEPT
                                !.pc[t] = "done",
                                !.readers = @ \ {t},
                                !.result[t] = [ok |-> FALSE, cached |-> FALSE, version |-> 0]]
           ELSE IF is_stale(provider.latest, provider.existing[t])
                THEN provider' = [provider EXCEPT !.pc[t] = "remove"]
                ELSE provider' = [provider EXCEPT
                                     !.pc[t] = "done",
                                     !.readers = @ \ {t},
                                     !.result[t] = [ok |-> TRUE, cached |-> TRUE,
                                                    version |-> provider.existing[t]]]
    /\ ProviderStep

\* self.tables.remove(table_name): the thread takes the write lock of the shard or parks
\* until it is free
RemoveStale(t) ==
    /\ provider.pc[t] \in {"remove", "parked"}
    /\ IF write_lock_free(provider)
       THEN provider' = [provider EXCEPT
                            !.tables = [n \in DOMAIN @ \ {TableName} |-> @[n]],
                            !.pc[t] = "load"]
       ELSE /\ provider.pc[t] = "remove"
            /\ provider' = [provider EXCEPT !.pc[t] = "parked"]
    /\ ProviderStep

\* load_and_cache_table: self.namespace.load_dataset(table_name).await
LoadDataset(t) ==
    /\ provider.pc[t] = "load"
    /\ \E failed \in BOOLEAN :
           IF failed
           THEN provider' = [provider EXCEPT
                                !.pc[t] = "done",
                                !.readers = @ \ {t},
                                !.result[t] = [ok |-> FALSE, cached |-> FALSE, version |-> 0]]
           ELSE provider' = [provider EXCEPT !.pc[t] = "insert",
                                             !.dataset[t] = provider.latest]
    /\ ProviderStep

\* load_and_cache_table: self.tables.insert(..), once the write lock is free, and return
InsertAndReturn(t) ==
    /\ provider.pc[t] = "insert"
    /\ write_lock_free(provider)
    /\ provider' = [provider EXCEPT
                       !.tables = [n \in DOMAIN @ \cup {TableName} |-> provider.dataset[t]],
                       !.pc[t] = "done",
                       !.result[t] = [ok |-> TRUE, cached |-> FALSE,
                                      version |-> provider.dataset[t]]]
    /\ ProviderStep

\* the caller has its answer; the task is free for another call
CallAgain(t) ==
    /\ provider.pc[t] = "done"
    /\ provider' = [provider EXCEPT !.pc[t] = "idle", !.existing[t] = 0,
                                    !.dataset[t] = 0]
    /\ ProviderStep

TableStep(t) ==
    \/ TableGet(t)
    \/ LatestVersionId(t)
    \/ RemoveStale(t)
    \/ LoadDataset(t)
    \/ InsertAndReturn(t)

NextProvider ==
    \/ NamespaceCommit
    \/ \E t \in Tasks : TableGet(t)
    \/ \E t \in Tasks : LatestVersionId(t)
    \/ \E t \in Tasks : RemoveStale(t)
    \/ \E t \in Tasks : LoadDataset(t)
    \/ \E t \in Tasks : InsertAndReturn(t)
    \/ \E t \in Tasks : CallAgain(t)

SpecProvider == InitProvider /\ [][NextProvider]_vars

\* every call of table() keeps running while it has a step to take
SpecProviderLive == SpecProvider /\ \A t \in Tasks : WF_vars(TableStep(t))

\* C33: a call of table(name) that finds its cached provider stale always completes: it
\* removes the entry, reloads, caches and returns, and never waits forever for the shard
\* lock of the table map while it holds the reference it got from the map
C33_StaleLookupCompletes ==
    \A t \in Tasks : (provider.pc[t] = "remove") ~> (provider.pc[t] = "done")

\* C40: table() answers from its cache only if the latest version id equals the version
\* of the cached dataset when it is checked; if the lookup of the latest version fails,
\* table() returns an error and the cache entry stays
C40_CachedAnswerWasFresh ==
    [][\A t \in Tasks :
           (provider.pc[t] = "latest" /\ provider'.pc[t] = "done") =>
               IF provider'.result[t].ok
               THEN /\ provider'.result[t].cached
                    /\ provider'.result[t].version = provider.tables[TableName]
                    /\ provider.latest = provider.tables[TableName]
               ELSE /\ TableName \in DOMAIN provider'.tables
                    /\ provider'.tables = provider.tables]_vars

\* a call answered from the cache with the provider of version 2, the latest version
C40_Witness ==
    \E t \in Tasks :
        /\ provider.pc[t] = "done"
        /\ provider.result[t].ok
        /\ provider.result[t].cached
        /\ provider.result[t].version = 2
        /\ provider.latest = 2
        /\ provider.tables[TableName] = 2

(* ------------------- one summary per version in an archive ------------------- *)
\* C36: after any sequence of load_or_new, add_summaries and flush, with a summary
\* added whose version the loaded archive already holds, the versions list and every
\* archive file written hold at most one VersionSummary per version number
C36_OneSummaryPerVersion ==
    /\ \A v \in Versions : Count(archive.versions, v) <= 1
    /\ \A n \in DOMAIN store :
           store[n].valid => \A v \in Versions : Count(store[n].versions, v) <= 1

(* ----------------------- cleanup and flush, run again ------------------------ *)
\* C35: cleanup is idempotent: after a flush whose cleanup ran and whose deletes
\* succeeded, running cleanup_old_archives again would delete nothing, and a flush()
\* repeated with no add_summaries in between leaves the same set of archive files as
\* the flush before it
C35_CleanupIdempotent ==
    [][lastOp'.op = "flush" =>
        /\ lastOp'.put # NoName =>
               cleanup_targets(list_archive_files(store'), config'.max_archive_files) = {}
        /\ lastOp.op = "flush" =>
               /\ DOMAIN store' = DOMAIN store
               /\ archive'.versions = archive.versions
               /\ lastOp'.targets \subseteq {lastOp'.put}]_vars

\* a repeated flush that wrote again the file the first one deleted, and deleted it again
C35_Witness ==
    /\ lastOp.op = "flush" /\ lastOp.repeated
    /\ lastOp.put # NoName
    /\ lastOp.targets = {lastOp.put}
    /\ Cardinality(DOMAIN store) = config.max_archive_files
    /\ config.max_archive_files >= 1

(* ------------------------- dataset_created_millis --------------------------- *)
\* the summary of the smallest version of a non-empty list
SmallestHeld(versions) ==
    CHOOSE s \in Range(versions) : \A o \in Range(versions) : s.version <= o.version

\* a flush of a non-empty list that finds dataset_created_millis unset sets it to the
\* timestamp of the smallest version held before the truncation
CreatedSetByFirstFlush ==
    (lastOp'.op = "flush" /\ archive.versions # <<>> /\ archive.dataset_created_millis = 0)
        => archive'.dataset_created_millis
               = AsU64(SmallestHeld(archive.versions).timestamp_millis)

\* a step of add_summaries, flush or load_or_new keeps a dataset_created_millis that is set
CreatedKeptOnceSet ==
    (archive.dataset_created_millis # 0
        /\ lastOp'.op \in {"add_summaries", "flush", "load_or_new"})
        => archive'.dataset_created_millis = archive.dataset_created_millis

C39_OffsetRangeStaysInBounds ==
    call.op = "fragments_by_offset_range" =>
        /\ Current.fragment_offsets[1] = 0
        /\ ~call.search.found => call.search.idx >= 1
        /\ call.idx >= 0
        /\ call.idx <= Len(Current.fragments)
        /\ \A i \in indices_read(Current, call.start, call.end, call.idx) :
               /\ i + 1 \in DOMAIN Current.fragment_offsets
               /\ i + 1 \in DOMAIN Current.fragments

\* a failed search past two leading fragments of zero rows, and one past the total
C39_Witness ==
    /\ call.op = "fragments_by_offset_range"
    /\ ~call.search.found
    /\ Len(Current.fragments) >= 2
    /\ num_rows(Current.fragments[1]) = Some(0)
    /\ \/ call.idx = Len(Current.fragments) /\ call.start > call.end
       \/ call.idx = 1 /\ call.pairs # <<>>

(* ------------- max_fragment_id() from a Manifest to its successor ------------ *)
\* chains in which update_max_fragment_id may or may not be called on a Manifest
\* before its successor is built
InitMark ==
    /\ ArchiveIdle
    /\ \E fragments \in ChainFragments :
           manifests = <<new(TestSchema, fragments, StableFormat, None)>>
    /\ call = Called("new")

MarkNewFromPrevious ==
    /\ Len(manifests) < MaxChain
    /\ \E fragments \in ChainFragments :
           manifests' = Append(manifests,
                               new_from_previous(Current, TestSchema, fragments, None))
    /\ call' = Called("new_from_previous")
    /\ UNCHANGED archiveVars

MarkUpdateMaxFragmentId ==
    /\ Replace(update_max_fragment_id(Current))
    /\ call' = Called("update_max_fragment_id")
    /\ UNCHANGED archiveVars

NextMark == MarkNewFromPrevious \/ MarkUpdateMaxFragmentId

SpecMark == InitMark /\ [][NextMark]_vars

\* C37: for a Manifest P and its successor N = new_from_previous(P, schema, fragments, _)
\* with any fragment list, N.max_fragment_id() is at least P.max_fragment_id(), None
\* below every Some, whether or not update_max_fragment_id() was called on P or on N
C37_SuccessorMarkNotSmaller ==
    \A k \in 1..(Len(manifests) - 1) :
        OptLeq(max_fragment_id(manifests[k]), max_fragment_id(manifests[k + 1]))

(* ------------- two VersionArchive instances flushing one directory ----------- *)
\* the two instances; each holds its own archive in memory, the object store and
\* the configuration (one entry per archive, any max_archive_files) are shared
Instances == {1, 2}

\* flush() calls of one instance
MaxFlushes == 2

\* object_store.delete(&path): NotFound when another instance removed the file first
delete_result(dir, path) == IF path \in DOMAIN dir THEN "Ok" ELSE "NotFound"

\* the result of delete returned from cleanup_old_archives as if by `?`
cleanup_stops_on_error(res) == res # "Ok"

\* if let Err(e) = delete(&path).await { tracing::warn!(..) }: the loop goes on
cleanup_stops_on(res) == FALSE

\* the next path of archives.iter().take(delete_count): the newest one left
next_target(targets) ==
    CHOOSE p \in targets : \A q \in targets : VersionOfName(q) <= VersionOfName(p)

InitFlushers ==
    /\ store = EmptyDir
    /\ config \in {c \in VersionArchiveConfig : c.max_entries = 1}
    /\ archive = NewArchive(1)
    /\ lastOp = Op("load_or_new", "Ok", {})
    /\ flushedEver = {}
    /\ session = "loaded"
    /\ firstInstance = TRUE
    /\ failures = 0
    /\ manifests = <<>>
    /\ call = NoCall
    /\ provider = NoProvider
    /\ flushers = [i \in Instances |->
                      [pc |-> "idle", archive |-> NewArchive(1), dirty |-> FALSE,
                       flushes |-> 0, targets |-> {}, tolerated |-> FALSE, result |-> "none"]]

FlusherStep == UNCHANGED <<archive, config, lastOp, flushedEver, session, firstInstance,
                           failures, manifests, call, provider>>

\* add_summaries of one summary on instance i, between two of its flushes
InstanceAddSummaries(i) ==
    /\ flushers[i].pc = "idle"
    /\ ~flushers[i].dirty
    /\ flushers[i].flushes < MaxFlushes
    /\ \E s \in VersionSummary :
           flushers' = [flushers EXCEPT
                            ![i].archive.versions = Append(flushers[i].archive.versions, s),
                            ![i].dirty = TRUE]
    /\ UNCHANGED store
    /\ FlusherStep

\* flush of instance i up to the end of its put: finalize_summaries, the early
\* return, the encoding and object_store.put; called on a new archive or after
\* add_summaries
FlushPut(i) ==
    /\ flushers[i].pc = "idle"
    /\ flushers[i].dirty \/ flushers[i].flushes = 0
    /\ flushers[i].flushes < MaxFlushes
    /\ \E now \in Times :
           LET fin == finalize_summaries(flushers[i].archive, config, now)
               path == ArchiveFileName(fin.latest_version_number)
               bytes == EncodeArchive(fin)
           IN IF flush_returns_early(fin)
              THEN /\ flushers' = [flushers EXCEPT ![i].archive = fin, ![i].dirty = FALSE,
                                       ![i].flushes = flushers[i].flushes + 1,
                                       ![i].pc = "done", ![i].result = "Ok"]
                   /\ UNCHANGED store
              ELSE /\ flushers' = [flushers EXCEPT ![i].archive = fin, ![i].dirty = FALSE,
                                       ![i].flushes = flushers[i].flushes + 1,
                                       ![i].pc = "list", ![i].result = "none"]
                   /\ store' = [n \in DOMAIN store \cup {path} |->
                                   IF n = path THEN bytes ELSE store[n]]
    /\ FlusherStep

\* cleanup_old_archives of instance i: the listing and the choice of the files to delete
FlushList(i) ==
    /\ flushers[i].pc = "list"
    /\ LET targets == cleanup_targets(list_archive_files(store), config.max_archive_files)
       IN flushers' = [flushers EXCEPT
                           ![i].targets = targets,
                           ![i].pc = IF targets = {} THEN "done" ELSE "delete",
                           ![i].result = IF targets = {} THEN "Ok" ELSE "none"]
    /\ UNCHANGED store
    /\ FlusherStep

\* one round of the delete loop of instance i; flush returns after the last one
FlushDelete(i) ==
    /\ flushers[i].pc = "delete"
    /\ LET path == next_target(flushers[i].targets)
           res == delete_result(store, path)
           rest == flushers[i].targets \ {path}
       IN /\ store' = [n \in DOMAIN store \ {path} |-> store[n]]
          /\ flushers' =
                 IF cleanup_stops_on(res)
                 THEN [flushers EXCEPT ![i].targets = {}, ![i].pc = "done",
                                       ![i].result = "Err"]
                 ELSE [flushers EXCEPT
                           ![i].targets = rest,
                           ![i].tolerated = (flushers[i].tolerated \/ res # "Ok"),
                           ![i].pc = IF rest = {} THEN "done" ELSE "delete",
                           ![i].result = IF rest = {} THEN "Ok" ELSE "none"]
    /\ FlusherStep

\* the caller of instance i takes the result; the instance can be used again
FlushReturned(i) ==
    /\ flushers[i].pc = "done"
    /\ flushers' = [flushers EXCEPT ![i].pc = "idle", ![i].tolerated = FALSE]
    /\ UNCHANGED store
    /\ FlusherStep

NextFlushers ==
    \E i \in Instances :
        \/ InstanceAddSummaries(i)
        \/ FlushPut(i)
        \/ FlushList(i)
        \/ FlushDelete(i)
        \/ FlushReturned(i)

SpecFlushers == InitFlushers /\ [][NextFlushers]_vars

\* C34: when two VersionArchive instances over one directory flush concurrently, in
\* any interleaving of their put, list and delete steps, every flush returns Ok (a
\* delete of a file the other instance has removed is tolerated), and once both have
\* finished the directory holds at most max_archive_files archive files
C34_ConcurrentFlushesOkAndBounded ==
    /\ \A i \in Instances : flushers[i].pc = "done" => flushers[i].result = "Ok"
    /\ (\A i \in Instances : flushers[i].pc \in {"idle", "done"})
           => Cardinality(DOMAIN store) <= config.max_archive_files

\* both flushes are over, one of them was refused a delete of a file the other had
\* removed, and the directory is full
C34_Witness ==
    /\ \A i \in Instances : flushers[i].pc = "done" /\ flushers[i].result = "Ok"
    /\ \E i \in Instances : flushers[i].tolerated
    /\ config.max_archive_files >= 1
    /\ Cardinality(DOMAIN store) = config.max_archive_files

====
